---- MODULE Spec2Model ----
(***************************************************************************)
(* The feedback service layer (src/core/services.py): keyword-scored       *)
(* classification, user-type parsing, CSV column detection and kanban      *)
(* category-name generation.                                               *)
(*                                                                         *)
(* A Python str is a sequence of one-character tokens.  An ASCII character *)
(* is the token of itself ("v", "V", " "); any other character is the      *)
(* token "u" followed by its code point in hex ("u7f51" is U+7F51); a tab  *)
(* is "TAB" and a line feed "LF".  The text a token sequence stands for is *)
(* given in the comment next to it.  The double quote is the token "QUOTE"  *)
(* and the backslash the token "BACKSLASH".                                *)
(***************************************************************************)
EXTENDS Integers, Sequences, FiniteSets, TLC

VARIABLES
    call,               \* one call of a service function (src/core/services.py)
    use_postgres,       \* config USE_POSTGRES: PostgreSQL instead of SQLite
    upload_batches,     \* table upload_batches
    feedbacks,          \* table feedbacks
    kanban_categories,  \* table kanban_categories
    kanban_items,       \* table kanban_items
    last_id,            \* per table, the greatest id ever handed out
    req,                \* the upload_csv request being served, and its locals
    resp,               \* the response to the last request
    category_keywords,  \* feedback_classifier.category_keywords, the taxonomy dict
    frames,             \* per thread, the service call it is in and its locals
    budget,             \* per thread, the calls it has yet to make
    log                 \* the calls that returned (function, argument, result)
                        \* and the changes callers made to lists they were given

tables == <<upload_batches, feedbacks, kanban_categories, kanban_items, last_id>>

threads == <<category_keywords, frames, budget, log>>

vars == <<call, use_postgres, tables, req, resp, threads>>

(***************************************************************************)
(* Bounds of the inputs.                                                   *)
(***************************************************************************)
MaxFrags == 3

MaxTypeFrags == 2

MaxHeaders == 3

MaxContents == 2
MaxRows == 3
\* ids the store hands out in all, over its four tables
MaxIds == 4
\* calls one thread makes one after the other
MaxCalls == 3

(***************************************************************************)
(* Python str primitives.                                                  *)
(***************************************************************************)
UpperCase == <<"A", "B", "C", "D", "E", "F", "G", "H", "I", "J", "K", "L", "M",
               "N", "O", "P", "Q", "R", "S", "T", "U", "V", "W", "X", "Y", "Z">>

LowerCase == <<"a", "b", "c", "d", "e", "f", "g", "h", "i", "j", "k", "l", "m",
               "n", "o", "p", "q", "r", "s", "t", "u", "v", "w", "x", "y", "z">>

\* one character of str.lower()
LowerChar(c) ==
    IF \E i \in 1..Len(UpperCase) : UpperCase[i] = c
    THEN LowerCase[CHOOSE i \in 1..Len(UpperCase) : UpperCase[i] = c]
    ELSE c

\* s.lower()
Lower(s) == [i \in 1..Len(s) |-> LowerChar(s[i])]

\* k in s  (substring test)
Contains(s, k) ==
    \E i \in 0..(Len(s) - Len(k)) : SubSeq(s, i + 1, i + Len(k)) = k

\* the characters str.strip() removes: space, tab, line feed, ideographic space
IsSpace(c) == c \in {" ", "TAB", "LF", "u3000"}

RECURSIVE LStrip(_)
LStrip(s) == IF s # <<>> /\ IsSpace(Head(s)) THEN LStrip(Tail(s)) ELSE s

RECURSIVE RStrip(_)
RStrip(s) ==
    IF s # <<>> /\ IsSpace(s[Len(s)]) THEN RStrip(SubSeq(s, 1, Len(s) - 1)) ELSE s

\* s.strip()
Strip(s) == RStrip(LStrip(s))

\* s.replace(c, '') for a one-character c
Remove(s, c) == SelectSeq(s, LAMBDA x : x # c)

\* sep.join(strs)
RECURSIVE Join(_, _)
Join(sep, strs) ==
    IF strs = <<>> THEN <<>>
    ELSE IF Len(strs) = 1 THEN strs[1]
    ELSE strs[1] \o sep \o Join(sep, Tail(strs))

\* the strings made of at most n fragments of the sequence pool
RECURSIVE FragStrings(_, _)
FragStrings(pool, n) ==
    IF n = 0 THEN {<<>>}
    ELSE LET shorter == FragStrings(pool, n - 1)
         IN  shorter \cup {s \o pool[i] : s \in shorter, i \in 1..Len(pool)}

\* the sequences of at most n elements of the sequence pool
RECURSIVE Lists(_, _)
Lists(pool, n) ==
    IF n = 0 THEN {<<>>}
    ELSE LET shorter == Lists(pool, n - 1)
         IN  shorter \cup {Append(l, pool[i]) : l \in shorter, i \in 1..Len(pool)}

(***************************************************************************)
(* FeedbackClassifier                                                      *)
(***************************************************************************)
Other == <<"u5176", "u4ed6">>    \* "其他" (Other)

\* the dict in definition order, one record per item
CATEGORY_KEYWORDS == <<
    \* "功能使用问题": "怎么用", "如何", "使用", "操作", "不会", "找不到", "在哪", "怎么",
    \*               "无法使用", "不能用", "用不了", "打不开", "进不去"
    [category |-> <<"u529f", "u80fd", "u4f7f", "u7528", "u95ee", "u9898">>, keywords |-> <<<<"u600e", "u4e48", "u7528">>, <<"u5982", "u4f55">>, <<"u4f7f", "u7528">>, <<"u64cd", "u4f5c">>, <<"u4e0d", "u4f1a">>, <<"u627e", "u4e0d", "u5230">>, <<"u5728", "u54ea">>, <<"u600e", "u4e48">>, <<"u65e0", "u6cd5", "u4f7f", "u7528">>, <<"u4e0d", "u80fd", "u7528">>, <<"u7528", "u4e0d", "u4e86">>, <<"u6253", "u4e0d", "u5f00">>, <<"u8fdb", "u4e0d", "u53bb">>>>],
    \* "网络连接异常": "网络", "连接", "断开", "超时", "加载", "刷新", "联网", "网速",
    \*               "掉线", "连不上", "服务器", "请求失败"
    [category |-> <<"u7f51", "u7edc", "u8fde", "u63a5", "u5f02", "u5e38">>, keywords |-> <<<<"u7f51", "u7edc">>, <<"u8fde", "u63a5">>, <<"u65ad", "u5f00">>, <<"u8d85", "u65f6">>, <<"u52a0", "u8f7d">>, <<"u5237", "u65b0">>, <<"u8054", "u7f51">>, <<"u7f51", "u901f">>, <<"u6389", "u7ebf">>, <<"u8fde", "u4e0d", "u4e0a">>, <<"u670d", "u52a1", "u5668">>, <<"u8bf7", "u6c42", "u5931", "u8d25">>>>],
    \* "校对功能缺陷": "校对", "纠错", "错别字", "语法", "标点", "修改", "改错", "检测",
    \*               "识别", "漏检", "误报", "不准", "准确率"
    [category |-> <<"u6821", "u5bf9", "u529f", "u80fd", "u7f3a", "u9677">>, keywords |-> <<<<"u6821", "u5bf9">>, <<"u7ea0", "u9519">>, <<"u9519", "u522b", "u5b57">>, <<"u8bed", "u6cd5">>, <<"u6807", "u70b9">>, <<"u4fee", "u6539">>, <<"u6539", "u9519">>, <<"u68c0", "u6d4b">>, <<"u8bc6", "u522b">>, <<"u6f0f", "u68c0">>, <<"u8bef", "u62a5">>, <<"u4e0d", "u51c6">>, <<"u51c6", "u786e", "u7387">>>>],
    \* "会员权限问题": "会员", "VIP", "权限", "付费", "订阅", "开通", "续费", "到期",
    \*               "免费", "次数", "限制", "额度", "充值"
    [category |-> <<"u4f1a", "u5458", "u6743", "u9650", "u95ee", "u9898">>, keywords |-> <<<<"u4f1a", "u5458">>, <<"V", "I", "P">>, <<"u6743", "u9650">>, <<"u4ed8", "u8d39">>, <<"u8ba2", "u9605">>, <<"u5f00", "u901a">>, <<"u7eed", "u8d39">>, <<"u5230", "u671f">>, <<"u514d", "u8d39">>, <<"u6b21", "u6570">>, <<"u9650", "u5236">>, <<"u989d", "u5ea6">>, <<"u5145", "u503c">>>>],
    \* "功能建议与反馈": "建议", "希望", "能否", "可以增加", "想要", "需要", "功能", "新增",
    \*                 "添加", "支持", "优化", "改进", "体验"
    [category |-> <<"u529f", "u80fd", "u5efa", "u8bae", "u4e0e", "u53cd", "u9988">>, keywords |-> <<<<"u5efa", "u8bae">>, <<"u5e0c", "u671b">>, <<"u80fd", "u5426">>, <<"u53ef", "u4ee5", "u589e", "u52a0">>, <<"u60f3", "u8981">>, <<"u9700", "u8981">>, <<"u529f", "u80fd">>, <<"u65b0", "u589e">>, <<"u6dfb", "u52a0">>, <<"u652f", "u6301">>, <<"u4f18", "u5316">>, <<"u6539", "u8fdb">>, <<"u4f53", "u9a8c">>>>],
    \* "其他": no keyword
    [category |-> <<"u5176", "u4ed6">>, keywords |-> <<>>] >>

\* KeywordHits counting every occurrence of a keyword instead of 1 a keyword
RECURSIVE KeywordHitsPerOccurrence(_, _)
KeywordHitsPerOccurrence(keywords, text) ==
    IF keywords = <<>> THEN 0
    ELSE LET kw == Lower(Head(keywords))
         IN  Cardinality({i \in 0..(Len(text) - Len(kw)) :
                             SubSeq(text, i + 1, i + Len(kw)) = kw})
             + KeywordHitsPerOccurrence(Tail(keywords), text)

\* sum(1 for kw in keywords if kw.lower() in text)
RECURSIVE KeywordHits(_, _)
KeywordHits(keywords, text) ==
    IF keywords = <<>> THEN 0
    ELSE (IF Contains(text, Lower(Head(keywords))) THEN 1 ELSE 0)
         + KeywordHits(Tail(keywords), text)

\* ClassifyScores keeping a category only from two hits on
RECURSIVE ClassifyScoresAboveOne(_, _)
ClassifyScoresAboveOne(items, content_lower) ==
    IF items = <<>> THEN <<>>
    ELSE LET category == Head(items).category
             score == KeywordHits(Head(items).keywords, content_lower)
             rest == ClassifyScoresAboveOne(Tail(items), content_lower)
         IN  IF category = Other THEN rest
             ELSE IF score > 1
                  THEN <<[key |-> category, value |-> score]>> \o rest
                  ELSE rest

\* the loop filling the dict scores; a dict is the sequence of its items in
\* insertion order
RECURSIVE ClassifyScores(_, _)
ClassifyScores(items, content_lower) ==
    IF items = <<>> THEN <<>>
    ELSE LET category == Head(items).category
             score == KeywordHits(Head(items).keywords, content_lower)
             rest == ClassifyScores(Tail(items), content_lower)
         IN  IF category = Other THEN rest
             ELSE IF score > 0
                  THEN <<[key |-> category, value |-> score]>> \o rest
                  ELSE rest

\* MaxScan replacing the running best by an equal value too: the last of the
\* greatest items is kept
RECURSIVE MaxScanLast(_, _)
MaxScanLast(best, items) ==
    IF items = <<>> THEN best
    ELSE MaxScanLast(IF Head(items).value >= best.value THEN Head(items) ELSE best,
                     Tail(items))

\* the scan of max(): the running best is replaced only by a strictly
\* greater value, so the first of the greatest items is kept
RECURSIVE MaxScan(_, _)
MaxScan(best, items) ==
    IF items = <<>> THEN best
    ELSE MaxScan(IF Head(items).value > best.value THEN Head(items) ELSE best,
                 Tail(items))

\* max(scores, key=scores.get) of a non-empty dict
MaxKey(scores) == MaxScan(Head(scores), Tail(scores)).key

\* classify matching the lowered keywords against the content as given
classifyNotLowered(content) ==
    IF content = <<>> THEN Other
    ELSE LET scores == ClassifyScores(CATEGORY_KEYWORDS, content)
         IN  IF scores # <<>> THEN MaxKey(scores) ELSE Other

classify(content) ==
    IF content = <<>> THEN Other
    ELSE LET content_lower == Lower(content)
             scores == ClassifyScores(CATEGORY_KEYWORDS, content_lower)
         IN  IF scores # <<>> THEN MaxKey(scores) ELSE Other

(***************************************************************************)
(* Inputs of classify: texts made of a few fragments, and the text of the  *)
(* end-to-end scenario.                                                    *)
(***************************************************************************)
ContentFragments == <<
    <<"u7f51", "u7edc">>,     \* "网络"   keyword of "网络连接异常"
    <<"u8d85", "u65f6">>,     \* "超时"   keyword of "网络连接异常"
    <<"u5e0c", "u671b">>,     \* "希望"   keyword of "功能建议与反馈"
    <<"u4f18", "u5316">>,     \* "优化"   keyword of "功能建议与反馈"
    <<"u600e", "u4e48">>,     \* "怎么"   keyword of "功能使用问题"
    <<"u7528">>,       \* "用"     no keyword; "怎么" + "用" = "怎么用"
    <<"V", "I", "P">>,      \* "VIP"    keyword of "会员权限问题", "vip" once lowered
    <<"u597d", "u7684">> >>   \* "好的"   no keyword

\* "网络连接总是超时，希望能优化一下"
ScenarioContent == <<"u7f51", "u7edc", "u8fde", "u63a5", "u603b", "u662f", "u8d85", "u65f6", "uff0c", "u5e0c", "u671b", "u80fd", "u4f18", "u5316", "u4e00", "u4e0b">>

ContentInputs == FragStrings(ContentFragments, MaxFrags) \cup {ScenarioContent}

(***************************************************************************)
(* UserTypeParser                                                          *)
(***************************************************************************)
UNKNOWN == <<"u672a", "u77e5">>          \* "未知" (Unknown)

MEMBER == <<"u4f1a", "u5458">>           \* "会员" (Member)

NORMAL_USER == <<"u666e", "u901a", "u7528", "u6237">>  \* "普通用户" (Normal User)

\* "会员", "vip", "premium", "付费", "pro"
MEMBER_KEYWORDS == <<<<"u4f1a", "u5458">>, <<"v", "i", "p">>, <<"p", "r", "e", "m", "i", "u", "m">>, <<"u4ed8", "u8d39">>, <<"p", "r", "o">>>>

\* "普通", "免费", "free", "normal", "basic"
NORMAL_KEYWORDS == <<<<"u666e", "u901a">>, <<"u514d", "u8d39">>, <<"f", "r", "e", "e">>, <<"n", "o", "r", "m", "a", "l">>, <<"b", "a", "s", "i", "c">>>>

\* any(kw in text for kw in keywords)
AnyIn(keywords, text) == \E i \in 1..Len(keywords) : Contains(text, keywords[i])

\* an Optional[str] argument: None, or a str
NoneStr == [none |-> TRUE, str |-> <<>>]

Some(s) == [none |-> FALSE, str |-> s]

\* parse testing the normal-user keywords before the member keywords
parseNormalFirst(user_type_str) ==
    IF user_type_str.none \/ user_type_str.str = <<>> THEN UNKNOWN
    ELSE LET user_type_lower == Lower(user_type_str.str)
         IN  IF AnyIn(NORMAL_KEYWORDS, user_type_lower) THEN NORMAL_USER
             ELSE IF AnyIn(MEMBER_KEYWORDS, user_type_lower) THEN MEMBER
             ELSE user_type_str.str

\* parse passing the lowered text through instead of the text as given
parseReturnsLowered(user_type_str) ==
    IF user_type_str.none \/ user_type_str.str = <<>> THEN UNKNOWN
    ELSE LET user_type_lower == Lower(user_type_str.str)
         IN  IF AnyIn(MEMBER_KEYWORDS, user_type_lower) THEN MEMBER
             ELSE IF AnyIn(NORMAL_KEYWORDS, user_type_lower) THEN NORMAL_USER
             ELSE user_type_lower

parse(user_type_str) ==
    IF user_type_str.none \/ user_type_str.str = <<>> THEN UNKNOWN
    ELSE LET user_type_lower == Lower(user_type_str.str)
         IN  IF AnyIn(MEMBER_KEYWORDS, user_type_lower) THEN MEMBER
             ELSE IF AnyIn(NORMAL_KEYWORDS, user_type_lower) THEN NORMAL_USER
             ELSE user_type_str.str

(***************************************************************************)
(* Inputs of parse: None, and cell texts made of a few fragments.          *)
(***************************************************************************)
UserTypeFragments == <<
    <<"V", "I", "P">>,      \* "VIP"    member keyword once lowered
    <<"u4f1a", "u5458">>,     \* "会员"   member keyword
    <<"u514d", "u8d39">>,     \* "免费"   normal-user keyword
    <<"F", "r", "e", "e">>,     \* "Free"   normal-user keyword once lowered
    <<"u666e", "u901a">>,     \* "普通"   normal-user keyword
    <<"u7528", "u6237">>,     \* "用户"   no keyword
    <<"G", "o", "l", "d">>,     \* "Gold"   no keyword
    <<" ">> >>      \* " "      no keyword

UserTypeInputs ==
    {NoneStr} \cup {Some(s) : s \in FragStrings(UserTypeFragments, MaxTypeFrags)}

(***************************************************************************)
(* CSVColumnDetector                                                       *)
(***************************************************************************)
\* "内容", "content", "feedback", "message", "描述", "意见", "评论", "反馈内容"
CONTENT_KEYWORDS == <<<<"u5185", "u5bb9">>, <<"c", "o", "n", "t", "e", "n", "t">>, <<"f", "e", "e", "d", "b", "a", "c", "k">>, <<"m", "e", "s", "s", "a", "g", "e">>, <<"u63cf", "u8ff0">>, <<"u610f", "u89c1">>, <<"u8bc4", "u8bba">>, <<"u53cd", "u9988", "u5185", "u5bb9">>>>

\* "id", "编号", "序号", "时间", "日期", "date"
EXCLUDE_KEYWORDS == <<<<"i", "d">>, <<"u7f16", "u53f7">>, <<"u5e8f", "u53f7">>, <<"u65f6", "u95f4">>, <<"u65e5", "u671f">>, <<"d", "a", "t", "e">>>>

\* "用户类型", "会员", "user_type", "身份", "等级", "会员类型", "用户身份"
USER_TYPE_KEYWORDS == <<<<"u7528", "u6237", "u7c7b", "u578b">>, <<"u4f1a", "u5458">>, <<"u", "s", "e", "r", "_", "t", "y", "p", "e">>, <<"u8eab", "u4efd">>, <<"u7b49", "u7ea7">>, <<"u4f1a", "u5458", "u7c7b", "u578b">>, <<"u7528", "u6237", "u8eab", "u4efd">>>>

\* "附件列表", "用户附件", "attachment", "附件链接", "文件链接"
ATTACHMENT_KEYWORDS == <<<<"u9644", "u4ef6", "u5217", "u8868">>, <<"u7528", "u6237", "u9644", "u4ef6">>, <<"a", "t", "t", "a", "c", "h", "m", "e", "n", "t">>, <<"u9644", "u4ef6", "u94fe", "u63a5">>, <<"u6587", "u4ef6", "u94fe", "u63a5">>>>

\* "数量", "count", "num", "个数", "数目"
ATTACHMENT_EXCLUDE_KEYWORDS == <<<<"u6570", "u91cf">>, <<"c", "o", "u", "n", "t">>, <<"n", "u", "m">>, <<"u4e2a", "u6570">>, <<"u6570", "u76ee">>>>

\* an unset column index (Python None); the set ones are 0, 1, ...
None == -1

\* header.lower().strip()
HeaderLower(header) == Strip(Lower(header))

\* header.strip().replace(' ', '').replace('　', '').replace('\t', '')
HeaderClean(header) == Remove(Remove(Remove(Strip(header), " "), "u3000"), "TAB")

\* the test that sets content_col: not should_exclude, and some content
\* keyword in header_lower
ContentMatches(header) ==
    LET header_lower == HeaderLower(header)
        should_exclude == AnyIn(EXCLUDE_KEYWORDS, header_lower)
    IN  ~should_exclude /\ AnyIn(CONTENT_KEYWORDS, header_lower)

\* the test that sets user_type_col
UserTypeMatches(header) == AnyIn(USER_TYPE_KEYWORDS, HeaderLower(header))

\* the test that sets attachment_col: the exclusion is tested on
\* header_clean, the keywords on header_clean and on header, none lowered
AttachmentMatches(header) ==
    LET header_clean == HeaderClean(header)
        should_exclude_attachment == AnyIn(ATTACHMENT_EXCLUDE_KEYWORDS, header_clean)
    IN  /\ ~should_exclude_attachment
        /\ \E i \in 1..Len(ATTACHMENT_KEYWORDS) :
              \/ Contains(header_clean, ATTACHMENT_KEYWORDS[i])
              \/ Contains(header, ATTACHMENT_KEYWORDS[i])

\* DetectStep without the "is None" guards: a later match overwrites
DetectStepOverwrite(cols, i, header) ==
    [content |-> IF ContentMatches(header) THEN i ELSE cols.content,
     user_type |-> IF UserTypeMatches(header) THEN i ELSE cols.user_type,
     attachment |-> IF AttachmentMatches(header) THEN i ELSE cols.attachment]

\* one iteration of the loop over enumerate(headers)
DetectStep(cols, i, header) ==
    [content |-> IF cols.content = None /\ ContentMatches(header)
                 THEN i ELSE cols.content,
     user_type |-> IF cols.user_type = None /\ UserTypeMatches(header)
                   THEN i ELSE cols.user_type,
     attachment |-> IF cols.attachment = None /\ AttachmentMatches(header)
                    THEN i ELSE cols.attachment]

\* the loop from index i on
RECURSIVE DetectLoop(_, _, _)
DetectLoop(cols, i, headers) ==
    IF i >= Len(headers) THEN cols
    ELSE DetectLoop(DetectStep(cols, i, headers[i + 1]), i + 1, headers)

detect(headers) ==
    DetectLoop([content |-> None, user_type |-> None, attachment |-> None],
               0, headers)

(***************************************************************************)
(* Inputs of detect: header rows of a few headers of a pool, and the       *)
(* header row of the end-to-end scenario.                                  *)
(***************************************************************************)
HeaderPool == <<
    <<"u5e8f", "u53f7">>,                \* "序号"             excluded from content, no keyword
    <<"u53cd", "u9988", "u5185", "u5bb9">>,            \* "反馈内容"         content
    <<"C", "o", "n", "t", "e", "n", "t", " ", "I", "D">>,          \* "Content ID"       content keyword and excluded
    <<"u4f1a", "u5458", "u7b49", "u7ea7">>,            \* "会员等级"         user type
    <<"u4f1a", "u5458", "u610f", "u89c1">>,            \* "会员意见"         content and user type
    <<"u9644", "u4ef6", "u5217", "u8868">>,            \* "附件列表"         attachment
    <<" ", "u9644", "u4ef6", " ", "u5217", "u8868", " ">>,         \* " 附件 列表 "      attachment once cleaned
    <<"u9644", "u4ef6", "u6570", "u91cf">>,            \* "附件数量"         no attachment keyword, excluded
    <<"a", "t", "t", "a", "c", "h", "m", "e", "n", "t">>,          \* "attachment"       attachment
    <<"A", "t", "t", "a", "c", "h", "m", "e", "n", "t">>,          \* "Attachment"       "attachment" once lowered
    <<"a", "t", "t", "a", "c", "h", "m", "e", "n", "t", " ", "C", "O", "U", "N", "T">> >>  \* "attachment COUNT" "attachment count" once lowered

\* "序号", "反馈内容", "用户类型", "附件列表"
ScenarioHeaders == <<<<"u5e8f", "u53f7">>, <<"u53cd", "u9988", "u5185", "u5bb9">>, <<"u7528", "u6237", "u7c7b", "u578b">>, <<"u9644", "u4ef6", "u5217", "u8868">>>>

HeaderInputs == Lists(HeaderPool, MaxHeaders) \cup {ScenarioHeaders}

(***************************************************************************)
(* KanbanCategoryGenerator                                                 *)
(***************************************************************************)
NEW_CATEGORY == <<"u65b0", "u5206", "u7c7b">>     \* "新分类" (New Category)

KEY_FEEDBACK == <<"u91cd", "u70b9", "u53cd", "u9988">>   \* "重点反馈" (Key Feedback)

\* the dict in definition order, one record per item
KEYWORD_TO_CATEGORY == <<
    \* ("bug", "崩溃", "闪退", "卡死", "报错", "异常"): "技术问题"
    [keywords |-> <<<<"b", "u", "g">>, <<"u5d29", "u6e83">>, <<"u95ea", "u9000">>, <<"u5361", "u6b7b">>, <<"u62a5", "u9519">>, <<"u5f02", "u5e38">>>>, category_name |-> <<"u6280", "u672f", "u95ee", "u9898">>],
    \* ("慢", "卡顿", "加载", "性能"): "性能问题"
    [keywords |-> <<<<"u6162">>, <<"u5361", "u987f">>, <<"u52a0", "u8f7d">>, <<"u6027", "u80fd">>>>, category_name |-> <<"u6027", "u80fd", "u95ee", "u9898">>],
    \* ("界面", "UI", "样式", "显示", "布局"): "界面问题"
    [keywords |-> <<<<"u754c", "u9762">>, <<"U", "I">>, <<"u6837", "u5f0f">>, <<"u663e", "u793a">>, <<"u5e03", "u5c40">>>>, category_name |-> <<"u754c", "u9762", "u95ee", "u9898">>],
    \* ("功能", "新增", "添加", "支持", "希望", "建议"): "功能需求"
    [keywords |-> <<<<"u529f", "u80fd">>, <<"u65b0", "u589e">>, <<"u6dfb", "u52a0">>, <<"u652f", "u6301">>, <<"u5e0c", "u671b">>, <<"u5efa", "u8bae">>>>, category_name |-> <<"u529f", "u80fd", "u9700", "u6c42">>],
    \* ("优化", "改进", "提升", "增强"): "优化建议"
    [keywords |-> <<<<"u4f18", "u5316">>, <<"u6539", "u8fdb">>, <<"u63d0", "u5347">>, <<"u589e", "u5f3a">>>>, category_name |-> <<"u4f18", "u5316", "u5efa", "u8bae">>],
    \* ("体验", "使用", "操作", "不方便", "麻烦"): "体验问题"
    [keywords |-> <<<<"u4f53", "u9a8c">>, <<"u4f7f", "u7528">>, <<"u64cd", "u4f5c">>, <<"u4e0d", "u65b9", "u4fbf">>, <<"u9ebb", "u70e6">>>>, category_name |-> <<"u4f53", "u9a8c", "u95ee", "u9898">>],
    \* ("满意", "好用", "不错", "赞"): "正面反馈"
    [keywords |-> <<<<"u6ee1", "u610f">>, <<"u597d", "u7528">>, <<"u4e0d", "u9519">>, <<"u8d5e">>>>, category_name |-> <<"u6b63", "u9762", "u53cd", "u9988">>],
    \* ("会员", "VIP", "付费", "订阅", "价格"): "会员相关"
    [keywords |-> <<<<"u4f1a", "u5458">>, <<"V", "I", "P">>, <<"u4ed8", "u8d39">>, <<"u8ba2", "u9605">>, <<"u4ef7", "u683c">>>>, category_name |-> <<"u4f1a", "u5458", "u76f8", "u5173">>],
    \* ("校对", "纠错", "错别字", "语法"): "校对功能"
    [keywords |-> <<<<"u6821", "u5bf9">>, <<"u7ea0", "u9519">>, <<"u9519", "u522b", "u5b57">>, <<"u8bed", "u6cd5">>>>, category_name |-> <<"u6821", "u5bf9", "u529f", "u80fd">>] >>

\* scores.get(key, 0)
DictGet(scores, key) ==
    IF \E i \in 1..Len(scores) : scores[i].key = key
    THEN scores[CHOOSE i \in 1..Len(scores) : scores[i].key = key].value
    ELSE 0

\* scores[key] = value: a present key keeps its place, a new one goes last
DictSet(scores, key, value) ==
    IF \E i \in 1..Len(scores) : scores[i].key = key
    THEN [i \in 1..Len(scores) |->
             IF scores[i].key = key THEN [key |-> key, value |-> value]
             ELSE scores[i]]
    ELSE Append(scores, [key |-> key, value |-> value])

\* the loop filling the dict scores, from the items left and the dict so far
RECURSIVE KanbanScores(_, _, _)
KanbanScores(items, all_text, scores) ==
    IF items = <<>> THEN scores
    ELSE LET category_name == Head(items).category_name
             score == KeywordHits(Head(items).keywords, all_text)
         IN  KanbanScores(Tail(items), all_text,
                 IF score > 0
                 THEN DictSet(scores, category_name,
                              DictGet(scores, category_name) + score)
                 ELSE scores)

\* extract_key_phrase returning the first non-empty content as the phrase
extractFirstContent(contents) ==
    LET found == SelectSeq(contents, LAMBDA c : c # <<>>)
    IN  IF found # <<>> THEN Head(found) ELSE KEY_FEEDBACK

\* the loop over the characters of the contents stores nothing in words
extract_key_phrase(contents) ==
    LET words == <<>>
    IN  KEY_FEEDBACK

\* generate_category_name matching the lowered keywords against the joined
\* text as given
generateNotLowered(contents) ==
    IF contents = <<>> THEN NEW_CATEGORY
    ELSE LET all_text == Join(<<" ">>, contents)
             scores == KanbanScores(KEYWORD_TO_CATEGORY, all_text, <<>>)
         IN  IF scores # <<>> THEN MaxKey(scores)
             ELSE extract_key_phrase(contents)

\* all_text joined without the separator
KanbanAllTextUnseparated(contents) == Lower(Join(<<>>, contents))

\* all_text = " ".join(contents).lower()
KanbanAllText(contents) == Lower(Join(<<" ">>, contents))

generate_category_name(contents) ==
    IF contents = <<>> THEN NEW_CATEGORY
    ELSE LET all_text == KanbanAllText(contents)
             scores == KanbanScores(KEYWORD_TO_CATEGORY, all_text, <<>>)
         IN  IF scores # <<>> THEN MaxKey(scores)
             ELSE extract_key_phrase(contents)

\* the list passed on holds the content only when the content is not empty
SuggestSkipsEmpty(content) ==
    generate_category_name(IF content = <<>> THEN <<>> ELSE <<content>>)

\* return cls.generate_category_name([content])
suggest_category_for_feedback(content) == generate_category_name(<<content>>)

(***************************************************************************)
(* Inputs of generate_category_name: lists of a few texts of a pool.       *)
(***************************************************************************)
KanbanPool == <<
    <<>>,           \* ""         no keyword
    <<"u4f60", "u597d">>,       \* "你好"     no keyword
    <<"B", "U", "G">>,        \* "BUG"      "技术问题" 1 once lowered
    <<"u52a0", "u8f7d", "u6162">>,     \* "加载慢"   "性能问题" 2
    <<"U", "I", "u5361">>,       \* "UI卡"     "界面问题" 1; "卡" + "顿" = "卡顿"
    <<"u987f">>,         \* "顿"       no keyword
    <<"u529f", "u80fd">>,       \* "功能"     "功能需求" 1
    <<"u4f18", "u5316", "u4f53", "u9a8c">> >> \* "优化体验" "优化建议" 1, "体验问题" 1

ContentsInputs == Lists(KanbanPool, MaxContents)

\* the single feedback texts handed to suggest_category_for_feedback
SuggestInputs == {KanbanPool[i] : i \in 1..Len(KanbanPool)} \cup ContentInputs

(***************************************************************************)
(* upload_csv: what one data row contributes to the list feedbacks         *)
(***************************************************************************)
\* s.startswith(prefix)
StartsWith(s, prefix) ==
    Len(s) >= Len(prefix) /\ SubSeq(s, 1, Len(prefix)) = prefix

\* s.split(c) for a one-character c
RECURSIVE Split(_, _)
Split(s, c) ==
    IF \E i \in 1..Len(s) : s[i] = c
    THEN LET i == CHOOSE k \in 1..Len(s) :
                      s[k] = c /\ \A j \in 1..(k - 1) : s[j] # c
         IN  <<SubSeq(s, 1, i - 1)>> \o Split(SubSeq(s, i + 1, Len(s)), c)
    ELSE <<s>>

\* s.isdigit()
IsDigit(s) ==
    /\ s # <<>>
    /\ \A i \in 1..Len(s) :
          s[i] \in {"0", "1", "2", "3", "4", "5", "6", "7", "8", "9"}

\* the escapes json.dumps writes inside a string
RECURSIVE JsonEscape(_)
JsonEscape(s) ==
    IF s = <<>> THEN <<>>
    ELSE (CASE Head(s) = "QUOTE" -> <<"BACKSLASH", "QUOTE">>
            [] Head(s) = "BACKSLASH" -> <<"BACKSLASH", "BACKSLASH">>
            [] Head(s) = "LF" -> <<"BACKSLASH", "n">>
            [] Head(s) = "TAB" -> <<"BACKSLASH", "t">>
            [] OTHER -> <<Head(s)>>)
         \o JsonEscape(Tail(s))

\* json.dumps(row, ensure_ascii=False) of a list of str
JsonDumps(row) ==
    <<"[">>
    \o Join(<<",", " ">>,
            [i \in 1..Len(row) |-> <<"QUOTE">> \o JsonEscape(row[i]) \o <<"QUOTE">>])
    \o <<"]">>

\* line and (line.startswith('http://') or line.startswith('https://'))
IsUrlLine(line) ==
    /\ line # <<>>
    /\ \/ StartsWith(line, <<"h", "t", "t", "p", ":", "/", "/">>)
       \/ StartsWith(line, <<"h", "t", "t", "p", "s", ":", "/", "/">>)

\* the trimmed cell is kept whole unless it is a number
ExtractAttachmentWhole(cell) ==
    IF IsDigit(Strip(cell)) THEN <<>> ELSE Strip(cell)

\* the attachment of a row whose attachment cell is given
ExtractAttachment(cell) ==
    LET raw_attachment == Strip(cell)
    IN  IF raw_attachment = <<>> THEN <<>>
        ELSE LET lines == Split(raw_attachment, "LF")
                 stripped == [i \in 1..Len(lines) |-> Strip(lines[i])]
                 urls == SelectSeq(stripped, IsUrlLine)
             IN  IF urls # <<>> THEN Join(<<"LF">>, urls)
                 ELSE IF ~IsDigit(raw_attachment) THEN raw_attachment
                 ELSE <<>>

\* the loop body without the test of the trimmed content
RowRecordKeepBlank(row, content_col, user_type_col, attachment_col) ==
    IF Len(row) <= content_col THEN <<>>
    ELSE LET content == Strip(row[content_col + 1])
         IN  <<[user_type |->
                    IF user_type_col # None /\ Len(row) > user_type_col
                    THEN parse(Some(row[user_type_col + 1]))
                    ELSE UNKNOWN,
                content |-> content,
                category |-> classify(content),
                attachment |->
                    IF attachment_col # None /\ Len(row) > attachment_col
                    THEN ExtractAttachment(row[attachment_col + 1])
                    ELSE <<>>,
                original_row |-> JsonDumps(row)]>>

\* the loop body keeping the content cell as it is in the row
RowRecordRawContent(row, content_col, user_type_col, attachment_col) ==
    IF Len(row) <= content_col THEN <<>>
    ELSE LET content == Strip(row[content_col + 1])
         IN  IF content = <<>> THEN <<>>
             ELSE <<[user_type |->
                         IF user_type_col # None /\ Len(row) > user_type_col
                         THEN parse(Some(row[user_type_col + 1]))
                         ELSE UNKNOWN,
                     content |-> row[content_col + 1],
                     category |-> classify(content),
                     attachment |->
                         IF attachment_col # None /\ Len(row) > attachment_col
                         THEN ExtractAttachment(row[attachment_col + 1])
                         ELSE <<>>,
                     original_row |-> JsonDumps(row)]>>

\* the body of the loop over data_rows: the records the row appends to
\* feedbacks, none when the row is skipped
RowRecord(row, content_col, user_type_col, attachment_col) ==
    IF Len(row) <= content_col THEN <<>>
    ELSE LET content == Strip(row[content_col + 1])
         IN  IF content = <<>> THEN <<>>
             ELSE <<[user_type |->
                         IF user_type_col # None /\ Len(row) > user_type_col
                         THEN parse(Some(row[user_type_col + 1]))
                         ELSE UNKNOWN,
                     content |-> content,
                     category |-> classify(content),
                     attachment |->
                         IF attachment_col # None /\ Len(row) > attachment_col
                         THEN ExtractAttachment(row[attachment_col + 1])
                         ELSE <<>>,
                     original_row |-> JsonDumps(row)]>>

(***************************************************************************)
(* The state: one call of a service function, its argument and, once it    *)
(* has returned, its result.  No request is served and the tables stay as  *)
(* init_db created them.                                                   *)
(***************************************************************************)
Pending(op, arg) == [op |-> op, arg |-> arg, done |-> FALSE, ret |-> <<>>]

\* no service call is being followed
NoCall == [op |-> "none", arg |-> <<>>, done |-> TRUE, ret |-> <<>>]

\* the threads that call the service singletons
Threads == {"t1", "t2"}

\* a thread that is in no call
IdleFrame ==
    [op |-> "none", arg |-> <<>>, pc |-> "idle", i |-> 0, scores |-> <<>>,
     result |-> [content |-> None, user_type |-> None, attachment |-> None],
     ret |-> <<>>, mutated |-> FALSE]

\* no thread calls the services; the taxonomy is as the module defines it
NoThreads ==
    /\ category_keywords = CATEGORY_KEYWORDS
    /\ frames = [t \in Threads |-> IdleFrame]
    /\ budget = [t \in Threads |-> 0]
    /\ log = <<>>

\* the tables after init_db: empty, no id handed out yet
EmptyStore ==
    /\ upload_batches = {}
    /\ feedbacks = {}
    /\ kanban_categories = {}
    /\ kanban_items = {}
    /\ last_id = [upload_batches |-> 0, feedbacks |-> 0,
                  kanban_categories |-> 0, kanban_items |-> 0]

\* no upload is being served
NoRequest ==
    [pc |-> "idle", filename |-> <<>>, headers |-> <<>>, data_rows |-> <<>>,
     col_indices |-> [content |-> None, user_type |-> None, attachment |-> None],
     content_col |-> None, batch_id |-> None, feedbacks |-> <<>>, i |-> 0]

\* no response sent yet
NoResponse == [status |-> 0]

Init ==
    /\ call \in {Pending("classify", c) : c \in ContentInputs}
                \cup {Pending("parse", u) : u \in UserTypeInputs}
                \cup {Pending("detect", h) : h \in HeaderInputs}
                \cup {Pending("generate_category_name", l) : l \in ContentsInputs}
                \cup {Pending("suggest_category_for_feedback", c) :
                          c \in SuggestInputs}
    /\ NoThreads
    /\ use_postgres = FALSE
    /\ EmptyStore
    /\ req = NoRequest
    /\ resp = NoResponse

Classify ==
    /\ call.op = "classify" /\ ~call.done
    /\ call' = [call EXCEPT !.done = TRUE, !.ret = classify(call.arg)]
    /\ UNCHANGED <<use_postgres, tables, req, resp, threads>>

Parse ==
    /\ call.op = "parse" /\ ~call.done
    /\ call' = [call EXCEPT !.done = TRUE, !.ret = parse(call.arg)]
    /\ UNCHANGED <<use_postgres, tables, req, resp, threads>>

Detect ==
    /\ call.op = "detect" /\ ~call.done
    /\ call' = [call EXCEPT !.done = TRUE, !.ret = detect(call.arg)]
    /\ UNCHANGED <<use_postgres, tables, req, resp, threads>>

GenerateCategoryName ==
    /\ call.op = "generate_category_name" /\ ~call.done
    /\ call' = [call EXCEPT !.done = TRUE,
                            !.ret = generate_category_name(call.arg)]
    /\ UNCHANGED <<use_postgres, tables, req, resp, threads>>

SuggestCategoryForFeedback ==
    /\ call.op = "suggest_category_for_feedback" /\ ~call.done
    /\ call' = [call EXCEPT !.done = TRUE,
                            !.ret = suggest_category_for_feedback(call.arg)]
    /\ UNCHANGED <<use_postgres, tables, req, resp, threads>>

(***************************************************************************)
(* upload_csv (src/core/routes.py).  The uploaded file is given by its     *)
(* name, whether one of the four encodings decodes it, and the rows        *)
(* csv.reader yields for it; a blank line is the row <<>>, and a byte      *)
(* order mark stays in the first header because "utf-8" is tried first.    *)
(* The handler is followed step by step: validation, column detection,     *)
(* create_upload_batch, one step per data row, insert_feedbacks_batch, the *)
(* response.                                                               *)
(***************************************************************************)
\* s.endswith(suffix)
EndsWith(s, suffix) ==
    Len(s) >= Len(suffix) /\ SubSeq(s, Len(s) - Len(suffix) + 1, Len(s)) = suffix

\* the content column falls back to the second column
DefaultContentColSecond(content_col) == IF content_col = None THEN 1 ELSE content_col

\* if content_col is None: content_col = 0
DefaultContentCol(content_col) == IF content_col = None THEN 0 ELSE content_col

UploadHeaderRows == {
    \* "序号", "反馈内容", "用户类型", "附件列表": content 1, user type 2, attachment 3
    ScenarioHeaders,
    \* "序号", "会员等级": no content column, user type 1
    <<<<"u5e8f", "u53f7">>, <<"u4f1a", "u5458", "u7b49", "u7ea7">>>>,
    \* "\ufeff反馈内容": content 0 behind a byte order mark
    <<<<"ufeff", "u53cd", "u9988", "u5185", "u5bb9">>>>,
    \* a blank first line: no column at all
    <<>> }

RowPool == <<
    <<>>,                                   \* a blank line
    <<<<"1">>, <<" ", "u7f51", "u7edc", "u8d85", "u65f6", " ">>, <<"V", "I", "P", "u4f1a", "u5458">>, <<"h", "t", "t", "p", ":", "/", "/", "a", "/", "1", ".", "p", "n", "g", "LF", " ", "x", " ", "LF", " ", "h", "t", "t", "p", "s", ":", "/", "/", "b">>>>,
    <<<<"u5f88", "u597d">>, <<"u5361", "u987f">>, <<"u666e", "u901a">>, <<"1", "2", "3">>>>,
    <<<<" ">>, <<"TAB", " ">>, <<>>, <<>>>>,                 \* nothing but white space
    <<<<"U", "I", "u5361">>, <<" ", "u6253", "u4e0d", "u5f00", "QUOTE", "u7740", "BACKSLASH", "V", "I", "P">>, <<"u5b66", "u751f">>, <<" ", "u56fe", "1", " ">>>>,
    <<<<"5">>, <<"u597d", "u7528">>, <<>>, <<" ", "TAB">>>>,      \* an attachment cell of white space
    <<<<"3">>>> >>                              \* one cell only

NoFilePart == [has_file |-> FALSE, filename |-> <<>>, decodable |-> FALSE, rows |-> <<>>]

UploadFile(filename, decodable, rows) ==
    [has_file |-> TRUE, filename |-> filename, decodable |-> decodable, rows |-> rows]

UploadFiles ==
    {NoFilePart,
     UploadFile(<<"a", ".", "t", "x", "t">>, TRUE, <<<<<<"u5185", "u5bb9">>>>, <<<<"u597d">>>>>>),
     UploadFile(<<"a", ".", "C", "S", "V">>, TRUE, <<<<<<"u5185", "u5bb9">>>>, <<<<"u597d">>>>>>),
     UploadFile(<<"a", ".", "c", "s", "v">>, FALSE, <<>>),
     UploadFile(<<"a", ".", "c", "s", "v">>, TRUE, <<>>)}
    \cup {UploadFile(<<"a", ".", "c", "s", "v">>, TRUE, <<h>> \o d) :
             h \in UploadHeaderRows, d \in Lists(RowPool, MaxRows)}

\* the checks without the one of the file name
RejectedWhateverName(file) ==
    \/ ~file.has_file
    \/ ~file.decodable
    \/ Len(file.rows) < 2

\* the four checks that answer 400: no file part, a name that does not end
\* in .csv, bytes no encoding decodes, fewer than two rows
Rejected(file) ==
    \/ ~file.has_file
    \/ ~EndsWith(file.filename, <<".", "c", "s", "v">>)
    \/ ~file.decodable
    \/ Len(file.rows) < 2

\* lines 61-93: the request is rejected, or headers and data rows are split
Receive(file) ==
    /\ IF Rejected(file)
       THEN /\ req' = [NoRequest EXCEPT !.pc = "done", !.filename = file.filename]
            /\ resp' = [status |-> 400]
       ELSE /\ req' = [NoRequest EXCEPT !.pc = "detect",
                                        !.filename = file.filename,
                                        !.headers = Head(file.rows),
                                        !.data_rows = Tail(file.rows)]
            /\ resp' = NoResponse
    /\ UNCHANGED <<call, threads, use_postgres, tables>>

UploadReceive ==
    /\ req.pc = "idle"
    /\ \E file \in UploadFiles : Receive(file)

\* lines 96-103
UploadDetect ==
    /\ req.pc = "detect"
    /\ LET col_indices == detect(req.headers)
       IN  req' = [req EXCEPT !.pc = "batch",
                              !.col_indices = col_indices,
                              !.content_col = DefaultContentCol(col_indices.content)]
    /\ UNCHANGED <<call, threads, use_postgres, tables, resp>>

\* lines 106-109: create_upload_batch commits the new batch
UploadCreateBatch ==
    /\ req.pc = "batch"
    /\ LET batch_id == last_id.upload_batches + 1
       IN  /\ upload_batches' = upload_batches \cup
                   {[id |-> batch_id, filename |-> req.filename,
                     total_count |-> Len(req.data_rows),
                     headers |-> JsonDumps(req.headers)]}
           /\ last_id' = [last_id EXCEPT !.upload_batches = batch_id]
           /\ req' = [req EXCEPT !.pc = "rows", !.batch_id = batch_id]
    /\ UNCHANGED <<call, threads, use_postgres, feedbacks, kanban_categories, kanban_items, resp>>

\* lines 111-150: one turn of the loop over data_rows
UploadProcessRow ==
    /\ req.pc = "rows"
    /\ req.i < Len(req.data_rows)
    /\ req' = [req EXCEPT
                  !.i = @ + 1,
                  !.feedbacks = @ \o RowRecord(req.data_rows[req.i + 1],
                                               req.content_col,
                                               req.col_indices.user_type,
                                               req.col_indices.attachment)]
    /\ UNCHANGED <<call, threads, use_postgres, tables, resp>>

\* the rows insert_feedbacks_batch adds for the list fbs
InsertedFeedbacks(batch_id, fbs) ==
    {[id |-> last_id.feedbacks + k,
      upload_batch_id |-> batch_id,
      user_type |-> fbs[k].user_type,
      content |-> fbs[k].content,
      category |-> fbs[k].category,
      attachment |-> fbs[k].attachment,
      original_row |-> fbs[k].original_row] : k \in 1..Len(fbs)}

\* insert_feedbacks_batch is called with the records built so far
UploadInsertEarly ==
    /\ req.pc = "rows"
    /\ feedbacks' = feedbacks \cup InsertedFeedbacks(req.batch_id, req.feedbacks)
    /\ last_id' = [last_id EXCEPT !.feedbacks = @ + Len(req.feedbacks)]
    /\ req' = [req EXCEPT !.pc = "respond"]
    /\ UNCHANGED <<call, threads, use_postgres, upload_batches, kanban_categories, kanban_items, resp>>

\* line 153, after the loop: insert_feedbacks_batch commits every record
UploadInsert ==
    /\ req.pc = "rows"
    /\ req.i = Len(req.data_rows)
    /\ feedbacks' = feedbacks \cup InsertedFeedbacks(req.batch_id, req.feedbacks)
    /\ last_id' = [last_id EXCEPT !.feedbacks = @ + Len(req.feedbacks)]
    /\ req' = [req EXCEPT !.pc = "respond"]
    /\ UNCHANGED <<call, threads, use_postgres, upload_batches, kanban_categories, kanban_items, resp>>

\* lines 155-179
UploadRespond ==
    /\ req.pc = "respond"
    /\ resp' = [status |-> 200, batch_id |-> req.batch_id,
                total_processed |-> Len(req.feedbacks)]
    /\ req' = [req EXCEPT !.pc = "done"]
    /\ UNCHANGED <<call, threads, use_postgres, tables>>

\* one upload into the tables as init_db left them
InitUpload ==
    /\ call = NoCall
    /\ NoThreads
    /\ use_postgres \in BOOLEAN
    /\ EmptyStore
    /\ req = NoRequest
    /\ resp = NoResponse

(***************************************************************************)
(* The store (src/core/models.py) behind the routes (src/core/routes.py).  *)
(* Requests are served one after the other; every handler but upload_csv   *)
(* is one step, from the request to the response and the closing of its    *)
(* connection, which drops what the handler did not commit.  Under         *)
(* PostgreSQL the foreign keys of kanban_categories and kanban_items are   *)
(* enforced: a statement that breaks one raises, the handler answers 500   *)
(* and nothing is committed, though an id the statement drew stays drawn.  *)
(* SQLite does not enforce them.                                           *)
(***************************************************************************)
\* files of two records, of one record and a skipped row, of one record,
\* and two files that are rejected
StoreFiles ==
    {UploadFile(<<"a", ".", "c", "s", "v">>, TRUE,
                <<<<<<"u5185", "u5bb9">>, <<"u7528", "u6237">>>>, <<<<"u7f51", "u7edc", "u8d85", "u65f6">>, <<"V", "I", "P">>>>, <<<<" ", "u5361", "u987f", " ">>, <<"u5b66", "u751f">>>>>>),
     UploadFile(<<"b", ".", "c", "s", "v">>, TRUE, <<<<<<"u5185", "u5bb9">>, <<"u7528", "u6237">>>>, <<<<" ">>>>, <<<<"u5361", "u987f">>, <<"u5b66", "u751f">>>>>>),
     UploadFile(<<"c", ".", "c", "s", "v">>, TRUE, <<<<<<"u610f", "u89c1">>>>, <<<<"u5efa", "u8bae">>>>>>),
     UploadFile(<<"a", ".", "c", "s", "v">>, TRUE, <<<<<<"u5185", "u5bb9">>, <<"u7528", "u6237">>>>>>),
     UploadFile(<<"a", ".", "t", "x", "t">>, TRUE, <<<<<<"u5185", "u5bb9">>>>, <<<<"u597d">>>>>>)}

\* the ids handed out so far
IdsDrawn ==
    last_id.upload_batches + last_id.feedbacks
    + last_id.kanban_categories + last_id.kanban_items

\* no upload is in progress
Quiet == req.pc \in {"idle", "done"}

StoreUploadReceive ==
    /\ Quiet
    /\ \E file \in StoreFiles :
          /\ IdsDrawn + Len(file.rows) <= MaxIds
          /\ Receive(file)

\* the response of a handler that is one step
Answer(r) ==
    /\ resp' = r
    /\ req' = NoRequest
    /\ UNCHANGED <<call, threads, use_postgres>>

\* COALESCE(MAX(...), 0)
MaxOf(S) == IF S = {} THEN 0 ELSE CHOOSE m \in S : \A x \in S : x <= m

BatchIdInputs == 0..(last_id.upload_batches + 1)
FeedbackIdInputs == 0..(last_id.feedbacks + 1)
CategoryIdInputs == {None} \cup 1..(last_id.kanban_categories + 1)
\* "", "\t ", " 紧急 ", "其他"
CategoryNameInputs ==
    {<<>>, <<"TAB", " ">>, <<" ", "u7d27", "u6025", " ">>, <<"u5176", "u4ed6">>}
\* " ", "其他", "网络连接异常"
OldNameInputs == {<<" ">>, <<"u5176", "u4ed6">>, <<"u7f51", "u7edc", "u8fde", "u63a5", "u5f02", "u5e38">>}
\* " 待办 ", ""
KanbanNameInputs == {<<" ", "u5f85", "u529e", " ">>, <<>>}
DEFAULT_COLOR == <<"#", "3", "B", "8", "2", "F", "6">>

\* the stored records of a batch
BatchFeedbacks(batch_id) == {f \in feedbacks : f.upload_batch_id = batch_id}

\* the lookup finds no item
NoExistingItem(feedback_id) == {}

\* the rows of SELECT id FROM kanban_items WHERE feedback_id = ?
ExistingItem(feedback_id) ==
    {k \in kanban_items : k.feedback_id = feedback_id}

\* the first kanban item of a feedback (SELECT ... WHERE feedback_id = ?, fetchone)
ItemOf(feedback_id) ==
    CHOOSE k \in kanban_items :
        /\ k.feedback_id = feedback_id
        /\ \A e \in kanban_items : e.feedback_id = feedback_id => k.id <= e.id

\* DELETE /batch/<batch_id>: delete_batch
DeleteBatch ==
    /\ Quiet
    /\ \E batch_id \in BatchIdInputs :
          IF /\ use_postgres
             /\ \/ \E k \in kanban_items : \E f \in feedbacks :
                       f.upload_batch_id = batch_id /\ k.feedback_id = f.id
                \/ \E c \in kanban_categories : c.batch_id = batch_id
          THEN /\ Answer([status |-> 500])
               /\ UNCHANGED tables
          ELSE /\ feedbacks' = {f \in feedbacks : f.upload_batch_id # batch_id}
               /\ upload_batches' = {b \in upload_batches : b.id # batch_id}
               /\ UNCHANGED <<kanban_categories, kanban_items, last_id>>
               /\ Answer([status |-> 200])

\* UPDATE feedbacks SET user_type = ?
SetUserType(f, new_category) == [f EXCEPT !.user_type = new_category]

\* UPDATE feedbacks SET category = ?
SetCategory(f, new_category) == [f EXCEPT !.category = new_category]

\* the UPDATE without its WHERE id = ?: every record of the batch of the
\* feedback is changed
UpdateCategoryOfBatch(feedback_id, new_category) ==
    {IF \E t \in feedbacks :
           t.id = feedback_id /\ t.upload_batch_id = f.upload_batch_id
     THEN SetCategory(f, new_category)
     ELSE f : f \in feedbacks}

\* db.update_feedback_category: UPDATE feedbacks SET category = ? WHERE id = ?
db_update_feedback_category(feedback_id, new_category) ==
    {IF f.id = feedback_id THEN SetCategory(f, new_category) ELSE f :
        f \in feedbacks}

\* update_feedback_category serving one request
update_feedback_category(feedback_id, category) ==
    /\ Quiet
    /\ LET new_category == Strip(category)
       IN  IF new_category = <<>>
           THEN Answer([status |-> 400]) /\ UNCHANGED tables
           ELSE IF ~\E f \in feedbacks : f.id = feedback_id
           THEN Answer([status |-> 404]) /\ UNCHANGED tables
           ELSE /\ feedbacks' = db_update_feedback_category(feedback_id, new_category)
                /\ UNCHANGED <<upload_batches, kanban_categories, kanban_items, last_id>>
                /\ Answer([status |-> 200])

\* PUT /feedback/<feedback_id>/category
UpdateFeedbackCategory ==
    \E feedback_id \in FeedbackIdInputs, category \in CategoryNameInputs :
        update_feedback_category(feedback_id, category)

\* the batch is found to have no category
NoCategoriesForBatch(batch_id) == {}

\* SELECT DISTINCT category FROM feedbacks WHERE upload_batch_id = ?
get_all_categories_for_batch(batch_id) ==
    {f.category : f \in BatchFeedbacks(batch_id)}

\* rename_category serving one request: the route's checks, then the UPDATE
\* of db.rename_category and its row count
rename_category(batch_id, old, new) ==
    /\ Quiet
    /\ LET old_name == Strip(old)
           new_name == Strip(new)
           existing == get_all_categories_for_batch(batch_id)
           renamed == {f \in BatchFeedbacks(batch_id) : f.category = old_name}
       IN  IF old_name = <<>> \/ new_name = <<>> \/ old_name = new_name
              \/ new_name \in existing
           THEN Answer([status |-> 400]) /\ UNCHANGED tables
           ELSE IF renamed = {}
           THEN Answer([status |-> 404]) /\ UNCHANGED tables
           ELSE /\ feedbacks' = {IF f \in renamed
                                 THEN SetCategory(f, new_name)
                                 ELSE f : f \in feedbacks}
                /\ UNCHANGED <<upload_batches, kanban_categories, kanban_items, last_id>>
                /\ Answer([status |-> 200, affected |-> Cardinality(renamed)])

\* PUT /batch/<batch_id>/category/rename
RenameCategory ==
    \E batch_id \in BatchIdInputs, old \in OldNameInputs, new \in CategoryNameInputs :
        rename_category(batch_id, old, new)

\* a category_id that PostgreSQL refuses to store in kanban_items
BadCategoryRef(category_id) ==
    /\ use_postgres
    /\ category_id # None
    /\ ~\E c \in kanban_categories : c.id = category_id

\* the notes sent with POST /kanban/add: none (the route's default '') or one
NoteInputs == {<<>>, <<"u6025">>}

\* add_to_kanban serving one request body; in add_feedback_to_kanban the
\* UPDATE of an item that is already there is followed by no commit, and the
\* connection is closed when the request ends
add_to_kanban(feedback_id, category_id, note) ==
    /\ Quiet
    /\ IF feedback_id = 0
       THEN Answer([status |-> 400]) /\ UNCHANGED tables
       ELSE IF ~\E f \in feedbacks : f.id = feedback_id
       THEN Answer([status |-> 404]) /\ UNCHANGED tables
       ELSE IF ExistingItem(feedback_id) # {}
       THEN /\ UNCHANGED tables
            /\ IF BadCategoryRef(category_id)
               THEN Answer([status |-> 500])
               ELSE Answer([status |-> 200, item_id |-> ItemOf(feedback_id).id])
       ELSE /\ IdsDrawn < MaxIds
            /\ LET item_id == last_id.kanban_items + 1
                   sort_order == MaxOf({k.sort_order : k \in {e \in kanban_items :
                                             e.category_id = category_id}}) + 1
               IN  /\ last_id' = [last_id EXCEPT !.kanban_items = item_id]
                   /\ UNCHANGED <<upload_batches, feedbacks, kanban_categories>>
                   /\ IF BadCategoryRef(category_id)
                      THEN /\ UNCHANGED kanban_items
                           /\ Answer([status |-> 500])
                      ELSE /\ kanban_items' = kanban_items \cup
                                  {[id |-> item_id, feedback_id |-> feedback_id,
                                    category_id |-> category_id, note |-> note,
                                    sort_order |-> sort_order]}
                           /\ Answer([status |-> 200, item_id |-> item_id])

\* POST /kanban/add
AddToKanban ==
    \E feedback_id \in FeedbackIdInputs, category_id \in CategoryIdInputs,
       note \in NoteInputs :
        add_to_kanban(feedback_id, category_id, note)

\* POST /kanban/remove
RemoveFromKanban ==
    /\ Quiet
    /\ \E feedback_id \in FeedbackIdInputs :
          IF feedback_id = 0
          THEN Answer([status |-> 400]) /\ UNCHANGED tables
          ELSE /\ kanban_items' = {k \in kanban_items : k.feedback_id # feedback_id}
               /\ UNCHANGED <<upload_batches, feedbacks, kanban_categories, last_id>>
               /\ Answer([status |-> 200])

\* POST /kanban/move
MoveKanbanItem ==
    /\ Quiet
    /\ \E feedback_id \in FeedbackIdInputs, new_category_id \in CategoryIdInputs :
          IF feedback_id = 0
          THEN Answer([status |-> 400]) /\ UNCHANGED tables
          ELSE IF ~\E k \in kanban_items : k.feedback_id = feedback_id
          THEN Answer([status |-> 404]) /\ UNCHANGED tables
          ELSE IF BadCategoryRef(new_category_id)
          THEN Answer([status |-> 500]) /\ UNCHANGED tables
          ELSE LET item == ItemOf(feedback_id)
               IN  /\ kanban_items' = {IF k.id = item.id
                                       THEN [k EXCEPT !.category_id = new_category_id]
                                       ELSE k : k \in kanban_items}
                   /\ UNCHANGED <<upload_batches, feedbacks, kanban_categories, last_id>>
                   /\ Answer([status |-> 200])

\* the body shared by the two routes that create a kanban category
CreateKanbanCategoryRoute ==
    /\ Quiet
    /\ \E batch_id \in BatchIdInputs, raw \in KanbanNameInputs :
          LET name == Strip(raw)
          IN  IF batch_id = 0 \/ name = <<>>
              THEN Answer([status |-> 400]) /\ UNCHANGED tables
              ELSE /\ IdsDrawn < MaxIds
                   /\ LET category_id == last_id.kanban_categories + 1
                          sort_order == MaxOf({c.sort_order : c \in {e \in kanban_categories :
                                                    e.batch_id = batch_id}}) + 1
                      IN  /\ last_id' = [last_id EXCEPT !.kanban_categories = category_id]
                          /\ UNCHANGED <<upload_batches, feedbacks, kanban_items>>
                          /\ IF use_postgres /\ ~\E b \in upload_batches : b.id = batch_id
                             THEN /\ UNCHANGED kanban_categories
                                  /\ Answer([status |-> 500])
                             ELSE /\ kanban_categories' = kanban_categories \cup
                                         {[id |-> category_id, batch_id |-> batch_id,
                                           name |-> name, color |-> DEFAULT_COLOR,
                                           sort_order |-> sort_order]}
                                  /\ Answer([status |-> 200, category_id |-> category_id])

\* POST /kanban/category
AddKanbanCategory == CreateKanbanCategoryRoute

\* POST /kanban/categories
CreateKanbanCategoryApi == CreateKanbanCategoryRoute

\* PUT /kanban/categories/<category_id>; a name or a color of None is not given
UpdateKanbanCategory ==
    /\ Quiet
    /\ \E category_id \in 1..(last_id.kanban_categories + 1),
          name \in {NoneStr, Some(<<"u5b8c", "u6210">>)}, color \in {NoneStr, Some(<<"#", "f", "0", "0">>)} :
          /\ kanban_categories' =
                 {IF c.id = category_id
                  THEN [c EXCEPT !.name = IF name.none THEN @ ELSE name.str,
                                 !.color = IF color.none THEN @ ELSE color.str]
                  ELSE c : c \in kanban_categories}
          /\ UNCHANGED <<upload_batches, feedbacks, kanban_items, last_id>>
          /\ Answer([status |-> 200])

\* the item is left in its category
KeepCategory(k) == k

\* UPDATE kanban_items SET category_id = NULL, for one item
Uncategorize(k) == [k EXCEPT !.category_id = None]

\* delete_kanban_category serving one request
delete_kanban_category(category_id) ==
    /\ Quiet
    /\ kanban_items' = {IF k.category_id = category_id
                        THEN Uncategorize(k)
                        ELSE k : k \in kanban_items}
    /\ kanban_categories' = {c \in kanban_categories : c.id # category_id}
    /\ UNCHANGED <<upload_batches, feedbacks, last_id>>
    /\ Answer([status |-> 200])

\* DELETE /kanban/categories/<category_id>
DeleteKanbanCategory ==
    \E category_id \in 1..(last_id.kanban_categories + 1) :
        delete_kanban_category(category_id)

\* the store as init_db left it, under either database
InitStore ==
    /\ call = NoCall
    /\ NoThreads
    /\ use_postgres \in BOOLEAN
    /\ EmptyStore
    /\ req = NoRequest
    /\ resp = NoResponse

(***************************************************************************)
(* Calls of the service singletons by threads.  A call is followed one     *)
(* loop turn at a time, so that calls of different threads interleave; the *)
(* locals of a call (scores, result) are in the frame of its thread.  The  *)
(* taxonomy dict is the one object the calls share.  The caller of         *)
(* get_categories may go on to change the list it was given.               *)
(***************************************************************************)
\* "", "网络超时", "VIP会员充值"
ThreadContentInputs == {<<>>, <<"u7f51", "u7edc", "u8d85", "u65f6">>, <<"V", "I", "P", "u4f1a", "u5458", "u5145", "u503c">>}
\* the scenario headers; "会员意见", "attachment"
ThreadHeaderInputs == {ScenarioHeaders, <<<<"u4f1a", "u5458", "u610f", "u89c1">>, <<"a", "t", "t", "a", "c", "h", "m", "e", "n", "t">>>>}
\* None, "VIP会员"
ThreadUserTypeInputs == {NoneStr, Some(<<"V", "I", "P", "u4f1a", "u5458">>)}
\* [], ["UI卡", "顿"], ["闪退", "加载慢"]
ThreadContentsInputs == {<<>>, <<<<"U", "I", "u5361">>, <<"u987f">>>>, <<<<"u95ea", "u9000">>, <<"u52a0", "u8f7d", "u6162">>>>}

\* the locals of every call are in the frame of the first thread
LocalsOfFirst(t) == "t1"

\* the frame holding the locals of the call of thread t
LocalsOf(t) == t

\* scores keeps the items of the call before
KeepScores(scores) == scores

\* scores = {}
FreshScores(scores) == <<>>

\* the list handed out is the list of keys itself
ListAlias(keys) == [alias |-> TRUE, value |-> keys]

\* list(keys): a new list
ListCopy(keys) == [alias |-> FALSE, value |-> keys]

\* thread t may start a call
CanCall(t) == frames[t].pc \in {"idle", "done"} /\ budget[t] > 0

\* thread t enters the loop of function op
Enter(t, op, arg) ==
    /\ frames' = [frames EXCEPT
                     ![t] = [IdleFrame EXCEPT !.op = op, !.arg = arg, !.pc = "loop",
                                              !.scores = frames[t].scores],
                     ![LocalsOf(t)].scores = FreshScores(@),
                     ![LocalsOf(t)].result = IdleFrame.result]
    /\ budget' = [budget EXCEPT ![t] = @ - 1]
    /\ UNCHANGED <<category_keywords, log>>

\* the call of thread t returns ret
Return(t, op, arg, ret) ==
    /\ frames' = [frames EXCEPT ![t].op = op, ![t].arg = arg, ![t].pc = "done",
                                ![t].ret = ret, ![t].mutated = FALSE]
    /\ log' = Append(log, [op |-> op, arg |-> arg, ret |-> ret])
    /\ UNCHANGED category_keywords

\* classify, lines 27-34
ClassifyEnter ==
    /\ \E t \in Threads, content \in ThreadContentInputs :
          /\ CanCall(t)
          /\ IF content = <<>>
             THEN /\ Return(t, "classify", content, Other)
                  /\ budget' = [budget EXCEPT ![t] = @ - 1]
             ELSE Enter(t, "classify", content)
    /\ UNCHANGED <<call, use_postgres, tables, req, resp>>

\* classify, lines 35-40: one turn of the loop over the taxonomy
ClassifyLoop ==
    /\ \E t \in Threads :
          /\ frames[t].op = "classify" /\ frames[t].pc = "loop"
          /\ frames[t].i < Len(category_keywords)
          /\ LET item == category_keywords[frames[t].i + 1]
                 score == KeywordHits(item.keywords, Lower(frames[t].arg))
             IN  frames' = [frames EXCEPT
                              ![t].i = @ + 1,
                              ![LocalsOf(t)].scores =
                                  IF item.category # Other /\ score > 0
                                  THEN DictSet(@, item.category, score)
                                  ELSE @]
    /\ UNCHANGED <<call, use_postgres, tables, req, resp, category_keywords, budget, log>>

\* classify, lines 43-46
ClassifyReturn ==
    /\ \E t \in Threads :
          /\ frames[t].op = "classify" /\ frames[t].pc = "loop"
          /\ frames[t].i = Len(category_keywords)
          /\ LET scores == frames[LocalsOf(t)].scores
             IN  Return(t, "classify", frames[t].arg,
                        IF scores # <<>> THEN MaxKey(scores) ELSE Other)
    /\ UNCHANGED <<call, use_postgres, tables, req, resp, budget>>

\* parse, lines 61-71
ParseCall ==
    /\ \E t \in Threads, user_type_str \in ThreadUserTypeInputs :
          /\ CanCall(t)
          /\ Return(t, "parse", user_type_str, parse(user_type_str))
          /\ budget' = [budget EXCEPT ![t] = @ - 1]
    /\ UNCHANGED <<call, use_postgres, tables, req, resp>>

\* detect, lines 95-97
DetectEnter ==
    /\ \E t \in Threads, headers \in ThreadHeaderInputs :
          /\ CanCall(t)
          /\ Enter(t, "detect", headers)
    /\ UNCHANGED <<call, use_postgres, tables, req, resp>>

\* detect, lines 99-130: one turn of the loop over the headers
DetectTurn ==
    /\ \E t \in Threads :
          /\ frames[t].op = "detect" /\ frames[t].pc = "loop"
          /\ frames[t].i < Len(frames[t].arg)
          /\ frames' = [frames EXCEPT
                           ![t].i = @ + 1,
                           ![LocalsOf(t)].result =
                               DetectStep(@, frames[t].i, frames[t].arg[frames[t].i + 1])]
    /\ UNCHANGED <<call, use_postgres, tables, req, resp, category_keywords, budget, log>>

\* detect, line 132
DetectReturn ==
    /\ \E t \in Threads :
          /\ frames[t].op = "detect" /\ frames[t].pc = "loop"
          /\ frames[t].i = Len(frames[t].arg)
          /\ Return(t, "detect", frames[t].arg, frames[LocalsOf(t)].result)
    /\ UNCHANGED <<call, use_postgres, tables, req, resp, budget>>

\* generate_category_name, lines 164-171
GenerateEnter ==
    /\ \E t \in Threads, contents \in ThreadContentsInputs :
          /\ CanCall(t)
          /\ IF contents = <<>>
             THEN /\ Return(t, "generate_category_name", contents, NEW_CATEGORY)
                  /\ budget' = [budget EXCEPT ![t] = @ - 1]
             ELSE Enter(t, "generate_category_name", contents)
    /\ UNCHANGED <<call, use_postgres, tables, req, resp>>

\* generate_category_name, lines 172-175: one turn of the loop over
\* KEYWORD_TO_CATEGORY
GenerateLoop ==
    /\ \E t \in Threads :
          /\ frames[t].op = "generate_category_name" /\ frames[t].pc = "loop"
          /\ frames[t].i < Len(KEYWORD_TO_CATEGORY)
          /\ frames' = [frames EXCEPT
                           ![t].i = @ + 1,
                           ![LocalsOf(t)].scores =
                               KanbanScores(<<KEYWORD_TO_CATEGORY[frames[t].i + 1]>>,
                                            KanbanAllText(frames[t].arg), @)]
    /\ UNCHANGED <<call, use_postgres, tables, req, resp, category_keywords, budget, log>>

\* generate_category_name, lines 177-182
GenerateReturn ==
    /\ \E t \in Threads :
          /\ frames[t].op = "generate_category_name" /\ frames[t].pc = "loop"
          /\ frames[t].i = Len(KEYWORD_TO_CATEGORY)
          /\ LET scores == frames[LocalsOf(t)].scores
             IN  Return(t, "generate_category_name", frames[t].arg,
                        IF scores # <<>> THEN MaxKey(scores)
                        ELSE extract_key_phrase(frames[t].arg))
    /\ UNCHANGED <<call, use_postgres, tables, req, resp, budget>>

\* the keys of a dict, in insertion order
Keys(d) == [i \in 1..Len(d) |-> d[i].category]

\* get_categories, line 50
GetCategories ==
    /\ \E t \in Threads :
          /\ CanCall(t)
          /\ Return(t, "get_categories", <<>>, ListCopy(Keys(category_keywords)))
          /\ budget' = [budget EXCEPT ![t] = @ - 1]
    /\ UNCHANGED <<call, use_postgres, tables, req, resp>>

\* the caller of get_categories changes the list it was given: it removes
\* the first element or appends one; a change of an alias of the keys is a
\* change of the taxonomy
CallerChangesList ==
    /\ \E t \in Threads :
          /\ frames[t].op = "get_categories" /\ frames[t].pc = "done"
          /\ ~frames[t].mutated
          /\ \E changed \in {Tail(frames[t].ret.value),
                               Append(frames[t].ret.value, <<"u65b0">>)} :
                /\ frames' = [frames EXCEPT ![t].ret.value = changed,
                                            ![t].mutated = TRUE]
                /\ log' = Append(log, [op |-> "list_changed", arg |-> <<>>,
                                       ret |-> changed])
                /\ category_keywords' =
                       IF frames[t].ret.alias
                       THEN [i \in 1..Len(changed) |->
                                IF \E j \in 1..Len(category_keywords) :
                                       category_keywords[j].category = changed[i]
                                THEN category_keywords[CHOOSE j \in 1..Len(category_keywords) :
                                         category_keywords[j].category = changed[i]]
                                ELSE [category |-> changed[i], keywords |-> <<>>]]
                       ELSE category_keywords
    /\ UNCHANGED <<call, use_postgres, tables, req, resp, budget>>

\* two threads, each making one call
InitThreads ==
    /\ call = NoCall
    /\ use_postgres = FALSE
    /\ EmptyStore
    /\ req = NoRequest
    /\ resp = NoResponse
    /\ category_keywords = CATEGORY_KEYWORDS
    /\ frames = [t \in Threads |-> IdleFrame]
    /\ budget = [t \in Threads |-> 1]
    /\ log = <<>>

\* one thread making MaxCalls calls one after the other
InitRepeat ==
    /\ call = NoCall
    /\ use_postgres = FALSE
    /\ EmptyStore
    /\ req = NoRequest
    /\ resp = NoResponse
    /\ category_keywords = CATEGORY_KEYWORDS
    /\ frames = [t \in Threads |-> IdleFrame]
    /\ budget = [t \in Threads |-> IF t = "t1" THEN MaxCalls ELSE 0]
    /\ log = <<>>

(***************************************************************************)
(* Properties.  A keyword "occurs" in a text when the lowered keyword is a *)
(* substring of the lowered text.                                          *)
(***************************************************************************)
Returned(op) == call.op = op /\ call.done

\* the keywords of the list that occur in the text
HitSet(keywords, text) ==
    {k \in 1..Len(keywords) : Contains(Lower(text), Lower(keywords[k]))}

Occurs(keywords, text) == HitSet(keywords, text) # {}

NonFallback ==
    {i \in 1..Len(CATEGORY_KEYWORDS) : CATEGORY_KEYWORDS[i].category # Other}

\* the keyword-hit score of the i-th category of the taxonomy
Score(i, content) == Cardinality(HitSet(CATEGORY_KEYWORDS[i].keywords, content))

\* C1: for a non-empty content in which some keyword occurs, classify
\* returns a non-fallback category whose keyword-hit score is the highest,
\* and every category defined before it in CATEGORY_KEYWORDS scores
\* strictly less (the first-defined of the tied categories wins).
C1_ClassifyFirstMax ==
    (Returned("classify") /\ call.arg # <<>>) =>
        LET score == [i \in NonFallback |-> Score(i, call.arg)]
        IN  (\E i \in NonFallback : score[i] > 0) =>
                \E i \in NonFallback :
                    /\ call.ret = CATEGORY_KEYWORDS[i].category
                    /\ \A j \in NonFallback : score[j] <= score[i]
                    /\ \A j \in NonFallback : j < i => score[j] < score[i]

\* two categories tie at the maximum positive score and the first is returned
C1_Witness ==
    /\ Returned("classify")
    /\ \E i, j \in NonFallback :
          /\ i < j
          /\ Score(i, call.arg) > 0
          /\ Score(i, call.arg) = Score(j, call.arg)
          /\ \A k \in NonFallback : Score(k, call.arg) <= Score(i, call.arg)
          /\ call.ret = CATEGORY_KEYWORDS[i].category

\* C2: classify returns the fallback "其他" when the content is empty or no
\* keyword of a non-fallback category occurs in it, and never returns the
\* fallback when a keyword of some non-fallback category occurs.
C2_ClassifyFallback ==
    Returned("classify") =>
        LET hit == \E i \in NonFallback :
                       Occurs(CATEGORY_KEYWORDS[i].keywords, call.arg)
        IN  /\ (call.arg = <<>> \/ ~hit) => call.ret = Other
            /\ hit => call.ret # Other

\* a non-empty content without keyword got the fallback
C2_Witness ==
    /\ Returned("classify")
    /\ call.arg # <<>>
    /\ \A i \in NonFallback : ~Occurs(CATEGORY_KEYWORDS[i].keywords, call.arg)
    /\ call.ret = Other

\* C3: the score classify gives a category is the number of distinct
\* keywords of the category that occur in the content (0 when the category
\* is absent from scores), a category with fewer hits than another is not
\* returned, and the scenario content hits 3 keywords of "网络连接异常" and 2
\* of "功能建议与反馈" and is classified "网络连接异常".
C3_ScoreIsDistinctHits ==
    (Returned("classify") /\ call.arg # <<>>) =>
        LET scores == ClassifyScores(CATEGORY_KEYWORDS, Lower(call.arg))
        IN  /\ \A i \in NonFallback :
                  DictGet(scores, CATEGORY_KEYWORDS[i].category)
                      = Score(i, call.arg)
            /\ \A i, j \in NonFallback :
                  Score(i, call.arg) < Score(j, call.arg) =>
                      call.ret # CATEGORY_KEYWORDS[i].category
            /\ call.arg = ScenarioContent =>
                  /\ Score(2, call.arg) = 3
                  /\ Score(5, call.arg) = 2
                  /\ call.ret = CATEGORY_KEYWORDS[2].category

\* a keyword occurs twice in the content and counts once
C3_Witness ==
    /\ Returned("classify")
    /\ call.arg = <<"u7f51", "u7edc", "u7f51", "u7edc", "u5e0c", "u671b">>    \* "网络网络希望"
    /\ Score(2, call.arg) = 1
    /\ Score(5, call.arg) = 1
    /\ call.ret = CATEGORY_KEYWORDS[2].category

\* C4: every index detect returns is unset or within [0, len(H)), and the
\* header at a returned index contains, whatever the letter case, a keyword
\* of the role's keyword list and no keyword of the role's exclusion list
\* (for the attachment role, in the header without its white space).
C4_DetectedHeaderFitsRole ==
    Returned("detect") =>
        LET H == call.arg
            r == call.ret
        IN  /\ \A idx \in {r.content, r.user_type, r.attachment} :
                  idx = None \/ (0 <= idx /\ idx < Len(H))
            /\ r.content # None =>
                  /\ Occurs(CONTENT_KEYWORDS, H[r.content + 1])
                  /\ ~Occurs(EXCLUDE_KEYWORDS, H[r.content + 1])
            /\ r.user_type # None =>
                  Occurs(USER_TYPE_KEYWORDS, H[r.user_type + 1])
            /\ r.attachment # None =>
                  /\ Occurs(ATTACHMENT_KEYWORDS, HeaderClean(H[r.attachment + 1]))
                  /\ ~Occurs(ATTACHMENT_EXCLUDE_KEYWORDS,
                             HeaderClean(H[r.attachment + 1]))

\* the smallest 0-based index of a header satisfying Rule, None without one
FirstIndex(headers, Rule(_)) ==
    LET found == {i \in 0..(Len(headers) - 1) : Rule(headers[i + 1])}
    IN  IF found = {} THEN None
        ELSE CHOOSE i \in found : \A j \in found : i <= j

\* the content rule: a content keyword occurs and no exclusion keyword does
ContentRule(header) ==
    Occurs(CONTENT_KEYWORDS, header) /\ ~Occurs(EXCLUDE_KEYWORDS, header)

\* the user-type rule: a user-type keyword occurs
UserTypeRule(header) == Occurs(USER_TYPE_KEYWORDS, header)

C6_DetectIgnoresCase ==
    Returned("detect") =>
        call.ret = detect([i \in 1..Len(call.arg) |-> Lower(call.arg[i])])

\* C7: a non-empty input in which a member keyword occurs yields "会员",
\* also when a normal-user keyword occurs in it; "普通用户" is returned
\* only when a normal-user keyword occurs and no member keyword does.
C7_ParseMemberFirst ==
    (Returned("parse") /\ ~call.arg.none /\ call.arg.str # <<>>) =>
        /\ Occurs(MEMBER_KEYWORDS, call.arg.str) => call.ret = MEMBER
        /\ call.ret = NORMAL_USER =>
              /\ Occurs(NORMAL_KEYWORDS, call.arg.str)
              /\ ~Occurs(MEMBER_KEYWORDS, call.arg.str)

\* a member and a normal-user keyword both occur, the normal-user one first
C7_Witness ==
    /\ Returned("parse")
    /\ call.arg = Some(<<"u514d", "u8d39", "V", "I", "P">>)    \* "免费VIP"
    /\ Occurs(MEMBER_KEYWORDS, call.arg.str)
    /\ Occurs(NORMAL_KEYWORDS, call.arg.str)
    /\ call.ret = MEMBER

\* C8: parse returns "未知" for None and for the empty string, and returns
\* a non-empty input in which neither a member nor a normal-user keyword
\* occurs exactly as given.
C8_ParseSentinelOrVerbatim ==
    Returned("parse") =>
        /\ (call.arg.none \/ call.arg.str = <<>>) => call.ret = UNKNOWN
        /\ (/\ ~call.arg.none
            /\ call.arg.str # <<>>
            /\ ~Occurs(MEMBER_KEYWORDS, call.arg.str)
            /\ ~Occurs(NORMAL_KEYWORDS, call.arg.str)) => call.ret = call.arg.str

\* an input without keyword that lowering and trimming would both change
C8_Witness ==
    /\ Returned("parse")
    /\ ~call.arg.none
    /\ ~Occurs(MEMBER_KEYWORDS, call.arg.str)
    /\ ~Occurs(NORMAL_KEYWORDS, call.arg.str)
    /\ Lower(call.arg.str) # call.arg.str
    /\ Strip(call.arg.str) # call.arg.str
    /\ call.ret = call.arg.str

Labels ==
    {KEYWORD_TO_CATEGORY[i].category_name : i \in 1..Len(KEYWORD_TO_CATEGORY)}

\* the keyword-sets of KEYWORD_TO_CATEGORY that map to the label
SetsOf(label) ==
    {i \in 1..Len(KEYWORD_TO_CATEGORY) :
        KEYWORD_TO_CATEGORY[i].category_name = label}

\* the hits of the keyword-sets I in the text, summed
RECURSIVE SumHits(_, _)
SumHits(I, text) ==
    IF I = {} THEN 0
    ELSE LET i == CHOOSE x \in I : TRUE
         IN  Cardinality(HitSet(KEYWORD_TO_CATEGORY[i].keywords, text))
             + SumHits(I \ {i}, text)

\* the score of the label accumulated over its keyword-sets
LabelScore(label, contents) == SumHits(SetsOf(label), Join(<<" ">>, contents))

\* the place in KEYWORD_TO_CATEGORY of the first keyword-set of the label
FirstSet(label) == CHOOSE i \in SetsOf(label) : \A j \in SetsOf(label) : i <= j

\* C9: when some keyword-set scores above 0, generate_category_name returns
\* a label whose accumulated score is the highest, and every label whose
\* keyword-set comes before it in KEYWORD_TO_CATEGORY scores strictly less.
C9_GenerateFirstMaxLabel ==
    (Returned("generate_category_name") /\ call.arg # <<>>) =>
        LET score == [l \in Labels |-> LabelScore(l, call.arg)]
        IN  (\E l \in Labels : score[l] > 0) =>
                \E l \in Labels :
                    /\ call.ret = l
                    /\ \A m \in Labels : score[m] <= score[l]
                    /\ \A m \in Labels :
                          FirstSet(m) < FirstSet(l) => score[m] < score[l]

\* two labels tie at the maximum, the text of the later-defined one comes
\* first in the input, and the earlier-defined one is returned
C9_Witness ==
    /\ Returned("generate_category_name")
    /\ call.arg = <<<<"u4f18", "u5316", "u4f53", "u9a8c">>, <<"u529f", "u80fd">>>>    \* "优化体验", "功能"
    /\ LabelScore(<<"u529f", "u80fd", "u9700", "u6c42">>, call.arg) = 1    \* "功能需求"
    /\ LabelScore(<<"u4f18", "u5316", "u5efa", "u8bae">>, call.arg) = 1    \* "优化建议"
    /\ \A l \in Labels : LabelScore(l, call.arg) <= 1
    /\ call.ret = <<"u529f", "u80fd", "u9700", "u6c42">>    \* "功能需求"

\* C10: generate_category_name returns "新分类" exactly when the input
\* sequence is empty, and "重点反馈" for every non-empty sequence no string
\* of which has a keyword of a keyword-set occurring in it.
C10_GenerateDefaults ==
    Returned("generate_category_name") =>
        /\ call.ret = NEW_CATEGORY <=> call.arg = <<>>
        /\ (/\ call.arg # <<>>
            /\ \A n \in 1..Len(call.arg) :
                  \A i \in 1..Len(KEYWORD_TO_CATEGORY) :
                      ~Occurs(KEYWORD_TO_CATEGORY[i].keywords, call.arg[n]))
           => call.ret = KEY_FEEDBACK

\* a sequence holding a text without keyword and an empty string
C10_Witness ==
    /\ Returned("generate_category_name")
    /\ call.arg = <<<<"u4f60", "u597d">>, <<>>>>    \* "你好", ""
    /\ call.ret = KEY_FEEDBACK

\* the permutations of a sequence
Perms(s) ==
    {[i \in 1..Len(s) |-> s[p[i]]] :
        p \in {q \in [1..Len(s) -> 1..Len(s)] :
                  \A i, j \in 1..Len(s) : q[i] = q[j] => i = j}}

\* the keywords of the keyword-sets I that occur inside one of the contents,
\* counted a keyword-set at a time
RECURSIVE SumOwnHits(_, _)
SumOwnHits(I, contents) ==
    IF I = {} THEN 0
    ELSE LET i == CHOOSE x \in I : TRUE
             keywords == KEYWORD_TO_CATEGORY[i].keywords
         IN  Cardinality({k \in 1..Len(keywords) :
                             \E n \in 1..Len(contents) :
                                 Occurs(<<keywords[k]>>, contents[n])})
             + SumOwnHits(I \ {i}, contents)

\* C11: the score generate_category_name gives a label counts exactly the
\* keywords that occur inside one of the content strings (none is found
\* across the boundary of two joined strings), and the label returned is
\* the same for every permutation of the input sequence.
C11_GenerateNoCrossMatch ==
    (Returned("generate_category_name") /\ call.arg # <<>>) =>
        LET scores == KanbanScores(KEYWORD_TO_CATEGORY,
                                   KanbanAllText(call.arg), <<>>)
        IN  /\ \A l \in Labels :
                  DictGet(scores, l) = SumOwnHits(SetsOf(l), call.arg)
            /\ \A p \in Perms(call.arg) :
                  generate_category_name(p) = call.ret

\* "卡" ends one string and "顿" is the next: "卡顿" is not counted
C11_Witness ==
    /\ Returned("generate_category_name")
    /\ call.arg = <<<<"U", "I", "u5361">>, <<"u987f">>>>    \* "UI卡", "顿"
    /\ SumOwnHits(SetsOf(<<"u6027", "u80fd", "u95ee", "u9898">>), call.arg) = 0    \* "性能问题"
    /\ call.ret = <<"u754c", "u9762", "u95ee", "u9898">>    \* "界面问题"

\* C19: a content in which keywords of one non-fallback category occur, and
\* no keyword of any other non-fallback category, is classified as that
\* category.
C19_ClassifyExclusive ==
    Returned("classify") =>
        \A i \in NonFallback :
            (/\ Score(i, call.arg) > 0
             /\ \A j \in NonFallback \ {i} : Score(j, call.arg) = 0)
            => call.ret = CATEGORY_KEYWORDS[i].category

\* one keyword of the last non-fallback category, in upper case, among text
\* without keyword
C19_Witness ==
    /\ Returned("classify")
    /\ call.arg = <<"u597d", "u7684", "V", "I", "P", "u7528">>    \* "好的VIP用"
    /\ Score(4, call.arg) = 1
    /\ \A j \in NonFallback \ {4} : Score(j, call.arg) = 0
    /\ call.ret = <<"u4f1a", "u5458", "u6743", "u9650", "u95ee", "u9898">>    \* "会员权限问题"

\* the upload has been answered with success
UploadDone == req.pc = "done" /\ resp.status = 200

\* the row has a cell at index c whose trimmed value is not empty
HasContent(row, c) == Len(row) > c /\ Strip(row[c + 1]) # <<>>

\* the rows of rows that have content at index c, in their order
RECURSIVE RowsWithContent(_, _)
RowsWithContent(rows, c) ==
    IF rows = <<>> THEN <<>>
    ELSE (IF HasContent(Head(rows), c) THEN <<Head(rows)>> ELSE <<>>)
         \o RowsWithContent(Tail(rows), c)

\* the position of a stored record among those of its batch, by id
Rank(f) ==
    Cardinality({e \in BatchFeedbacks(f.upload_batch_id) : e.id <= f.id})

\* C12: a successful upload stores exactly one record for each data row
\* that has a cell at the content column whose trimmed value is not empty,
\* in the order of the rows; every other row (too short, or with empty or
\* white-space content) yields no record.
C12_OneRecordPerContentRow ==
    UploadDone =>
        LET kept == RowsWithContent(req.data_rows, req.content_col)
            stored == BatchFeedbacks(resp.batch_id)
        IN  /\ Cardinality(stored) = Len(kept)
            /\ resp.total_processed = Len(kept)
            /\ \A f \in stored :
                  /\ f.original_row = JsonDumps(kept[Rank(f)])
                  /\ f.content = Strip(kept[Rank(f)][req.content_col + 1])

\* a row too short and a row of white space are skipped, the third row is kept
C12_Witness ==
    /\ UploadDone
    /\ req.content_col = 1
    /\ Len(req.data_rows) = 3
    /\ Len(req.data_rows[1]) <= 1
    /\ Len(req.data_rows[2]) > 1 /\ ~HasContent(req.data_rows[2], 1)
    /\ HasContent(req.data_rows[3], 1)
    /\ Cardinality(BatchFeedbacks(resp.batch_id)) = 1

\* the list of strings a serialized row stands for (json.loads)
RECURSIVE JsonCells(_, _, _, _)
JsonCells(s, inside, cell, cells) ==
    IF s = <<>> THEN cells
    ELSE IF ~inside
    THEN JsonCells(Tail(s), Head(s) = "QUOTE", <<>>, cells)
    ELSE IF Head(s) = "QUOTE"
    THEN JsonCells(Tail(s), FALSE, <<>>, Append(cells, cell))
    ELSE IF Head(s) = "BACKSLASH"
    THEN JsonCells(Tail(Tail(s)), TRUE,
                   Append(cell, CASE s[2] = "n" -> "LF"
                                  [] s[2] = "t" -> "TAB"
                                  [] OTHER -> s[2]),
                   cells)
    ELSE JsonCells(Tail(s), TRUE, Append(cell, Head(s)), cells)

JsonLoads(s) == JsonCells(s, FALSE, <<>>, <<>>)

\* the keys of the taxonomy
TaxonomyKeys == {CATEGORY_KEYWORDS[i].category : i \in 1..Len(CATEGORY_KEYWORDS)}

\* the data row a stored record of the upload was built from
SourceRow(f) == RowsWithContent(req.data_rows, req.content_col)[Rank(f)]

\* C13: every record a successful upload stores has a content that is not
\* empty and neither starts nor ends with white space; its category is
\* classify(content) and a key of the taxonomy; its user_type is "未知",
\* "会员", "普通用户" or the user-type cell of its row as it is; its
\* original_row reads back as its row.
C13_RecordWellFormed ==
    UploadDone =>
        \A f \in BatchFeedbacks(resp.batch_id) :
            LET row == SourceRow(f)
                user_type_col == req.col_indices.user_type
            IN  /\ f.content # <<>>
                /\ ~IsSpace(f.content[1])
                /\ ~IsSpace(f.content[Len(f.content)])
                /\ f.category = classify(f.content)
                /\ f.category \in TaxonomyKeys
                /\ \/ f.user_type \in {UNKNOWN, MEMBER, NORMAL_USER}
                   \/ /\ user_type_col # None
                      /\ Len(row) > user_type_col
                      /\ f.user_type = row[user_type_col + 1]
                /\ JsonLoads(f.original_row) = row

\* a stored record with trimmed content, a category other than the
\* fallback, a user type kept as it is and a row with escaped characters
C13_Witness ==
    /\ UploadDone
    /\ \E f \in BatchFeedbacks(resp.batch_id) :
          /\ f.content # SourceRow(f)[req.content_col + 1]
          /\ f.category # Other
          /\ f.user_type \notin {UNKNOWN, MEMBER, NORMAL_USER}
          /\ \E i \in 1..Len(f.original_row) : f.original_row[i] = "BACKSLASH"

\* column detection has run for the request
Detected == req.pc \in {"batch", "rows", "respond", "done"} /\ req.data_rows # <<>>

\* C15: when detect finds no content column, the upload takes column 0 as
\* the content column, is answered with success, and stores one record per
\* row with a first cell that is not blank, its content being that cell
\* trimmed.
C15_DefaultFirstColumn ==
    (Detected /\ detect(req.headers).content = None) =>
        /\ req.content_col = 0
        /\ req.pc = "done" =>
              /\ resp.status = 200
              /\ LET kept == RowsWithContent(req.data_rows, 0)
                     stored == BatchFeedbacks(resp.batch_id)
                 IN  /\ Cardinality(stored) = Len(kept)
                     /\ \A f \in stored : f.content = Strip(kept[Rank(f)][1])

\* headers "序号", "会员等级": no content column; a row of several cells is
\* stored with its first cell as content
C15_Witness ==
    /\ UploadDone
    /\ req.headers # <<>>
    /\ req.col_indices.content = None
    /\ \E f \in BatchFeedbacks(resp.batch_id) :
          /\ Len(SourceRow(f)) > 1
          /\ f.content = Strip(SourceRow(f)[1])
          /\ f.content # Strip(SourceRow(f)[2])

\* C16: within one upload a batch is stored only once column detection is
\* complete, and records are stored only once the loop has gone through
\* every data row, each stored record carrying the user type and the
\* category computed for it; no stored record is without a category.
C16_DetectClassifyThenStore ==
    /\ upload_batches # {} =>
          /\ req.col_indices = detect(req.headers)
          /\ req.content_col # None
    /\ feedbacks # {} =>
          /\ req.i = Len(req.data_rows)
          /\ Len(req.feedbacks) = Cardinality(feedbacks)
          /\ \A f \in feedbacks :
                /\ f.category = req.feedbacks[Rank(f)].category
                /\ f.category \in TaxonomyKeys
                /\ f.user_type = req.feedbacks[Rank(f)].user_type

\* the batch and two records are stored, the response not yet sent
C16_Witness ==
    /\ req.pc = "respond"
    /\ upload_batches # {}
    /\ Cardinality(feedbacks) = 2
    /\ Len(req.data_rows) = 3

\* the fields of a stored record other than its category
Immutable(f) ==
    [content |-> f.content, user_type |-> f.user_type,
     attachment |-> f.attachment, original_row |-> f.original_row,
     upload_batch_id |-> f.upload_batch_id]

\* C14: no step of any handler (upload, delete_batch, update_feedback_category,
\* rename_category, the kanban routes) changes the content, user_type,
\* attachment, original_row or upload_batch_id of a stored record, and the
\* id of a record that is new was never handed out before; the category is
\* the one field that is overwritten.
C14_StoredFieldsNeverChange ==
    [][\A e \in feedbacks' :
          /\ \A f \in feedbacks : e.id = f.id => Immutable(e) = Immutable(f)
          /\ (\A f \in feedbacks : e.id # f.id) => e.id > last_id.feedbacks]_vars

\* a record whose category was overwritten, with a kanban item, after a
\* kanban category was created
C14_Witness ==
    /\ \E f \in feedbacks :
          /\ f.category # classify(f.content)
          /\ \E k \in kanban_items : k.feedback_id = f.id
    /\ last_id.kanban_categories > 0

\* what a call returns when it runs alone
Alone(op, arg) ==
    CASE op = "classify" -> classify(arg)
      [] op = "parse" -> parse(arg)
      [] op = "detect" -> detect(arg)
      [] op = "generate_category_name" -> generate_category_name(arg)
      [] op = "get_categories" -> ListCopy(Keys(CATEGORY_KEYWORDS))

\* C17: however the calls of two threads to classify, detect, parse and
\* generate_category_name interleave, the taxonomy stays as defined and
\* every call returns what it returns when run alone.
C17_CallsDoNotInterfere ==
    /\ category_keywords = CATEGORY_KEYWORDS
    /\ \A k \in 1..Len(log) :
          log[k].op \in {"classify", "parse", "detect", "generate_category_name"}
              => log[k].ret = Alone(log[k].op, log[k].arg)

\* two calls of classify with different contents are both inside their
\* loops, each with a score already, and one of them then returns
C17_Witness ==
    /\ frames["t1"].op = "classify" /\ frames["t2"].op = "classify"
    /\ frames["t1"].arg # frames["t2"].arg
    /\ frames["t1"].scores # <<>> /\ frames["t2"].scores # <<>>
    /\ frames["t1"].pc = "done" /\ frames["t2"].pc = "loop"
    /\ frames["t2"].i > Len(frames["t2"].scores)
    /\ frames["t2"].i < Len(category_keywords)
    /\ Len(log) = 1

\* C18: classify and detect are deterministic: two calls with the same
\* argument return the same result, whatever calls were made in between.
C18_RepeatedCallsAgree ==
    \A j, k \in 1..Len(log) :
        (/\ log[j].op \in {"classify", "detect"}
         /\ log[j].op = log[k].op
         /\ log[j].arg = log[k].arg) => log[j].ret = log[k].ret

\* classify was called with a content, then with another that scores
\* higher in another category, then with the first again (or detect with
\* one header row, another, and the first again)
C18_Witness ==
    /\ Len(log) = 3
    /\ log[1].op \in {"classify", "detect"}
    /\ log[2].op = log[1].op
    /\ log[2].arg # log[1].arg
    /\ log[2].ret # log[1].ret
    /\ log[3] = log[1]
    /\ log[1].arg # <<>>

\* the keys of CATEGORY_KEYWORDS in the order of its definition
DefinitionOrder == <<
    <<"u529f", "u80fd", "u4f7f", "u7528", "u95ee", "u9898">>, <<"u7f51", "u7edc", "u8fde", "u63a5", "u5f02", "u5e38">>, <<"u6821", "u5bf9", "u529f", "u80fd", "u7f3a", "u9677">>,
    <<"u4f1a", "u5458", "u6743", "u9650", "u95ee", "u9898">>, <<"u529f", "u80fd", "u5efa", "u8bae", "u4e0e", "u53cd", "u9988">>, <<"u5176", "u4ed6">>>>

\* C20: get_categories returns the keys of the taxonomy, each once and
\* "其他" among them, in the order of the definition, in a list of its own:
\* when the caller changes that list the taxonomy stays as defined, later
\* calls of get_categories return the same keys and later calls of classify
\* the same categories.
C20_GetCategoriesOwnList ==
    /\ category_keywords = CATEGORY_KEYWORDS
    /\ \A k \in 1..Len(log) :
          /\ log[k].op = "get_categories" => log[k].ret.value = DefinitionOrder
          /\ log[k].op = "classify" => log[k].ret = classify(log[k].arg)

\* the caller changed the list it was given; after that get_categories and
\* classify were called
C20_Witness ==
    /\ Len(log) = 4
    /\ log[1].op = "get_categories"
    /\ log[2].op = "list_changed" /\ log[2].ret # DefinitionOrder
    /\ log[3].op = "get_categories"
    /\ log[4].op = "classify" /\ log[4].ret # Other

\* C21: suggest_category_for_feedback(content) returns what
\* generate_category_name returns for the list holding content alone, for
\* every content; for the empty string that is "重点反馈" and not "新分类".
C21_SuggestIsGenerateOfSingleton ==
    Returned("suggest_category_for_feedback") =>
        /\ call.ret = generate_category_name(<<call.arg>>)
        /\ call.ret # NEW_CATEGORY
        /\ (\A l \in Labels : LabelScore(l, <<call.arg>>) = 0)
              => call.ret = KEY_FEEDBACK
        /\ call.arg = <<>> => call.ret = KEY_FEEDBACK

\* the empty string was passed and "重点反馈" came back
C21_Witness ==
    /\ Returned("suggest_category_for_feedback")
    /\ call.arg = <<>>
    /\ call.ret = KEY_FEEDBACK
    /\ generate_category_name(<<>>) = NEW_CATEGORY

\* the feedback has an item on the board
OnBoard(feedback_id) == \E k \in kanban_items : k.feedback_id = feedback_id

\* C22: a POST /kanban/add for a feedback that is already on the board
\* leaves, for every later request, that item with the category_id and the
\* note of the request; it answers with the id of the existing item and
\* creates no item.
C22_ReAddUpdatesExistingItem ==
    [][\A feedback_id \in FeedbackIdInputs, category_id \in CategoryIdInputs,
         note \in NoteInputs :
           (/\ OnBoard(feedback_id)
            /\ add_to_kanban(feedback_id, category_id, note)
            /\ resp'.status = 200)
           => /\ resp'.item_id = ItemOf(feedback_id).id
              /\ {k.id : k \in kanban_items'} = {k.id : k \in kanban_items}
              /\ \E k \in kanban_items' :
                    /\ k.feedback_id = feedback_id
                    /\ k.category_id = category_id
                    /\ k.note = note]_vars

\* C23: after any sequence of completed requests the board holds at most one
\* item per feedback_id: POST /kanban/add for a feedback that is already on
\* the board creates no second item.
C23_OneItemPerFeedback ==
    \A k1, k2 \in kanban_items : k1.feedback_id = k2.feedback_id => k1 = k2

\* a feedback was taken off the board and put on it again: the board holds
\* its one item, whose id the last answer of POST /kanban/add names
C23_Witness ==
    /\ resp.status = 200
    /\ last_id.kanban_items = 2
    /\ \E k \in kanban_items :
          /\ kanban_items = {k}
          /\ resp = [status |-> 200, item_id |-> k.id]
          /\ \E f \in feedbacks : f.id = k.feedback_id

\* C24: the feedback_id of every kanban item is the id of a feedback that
\* is stored; after delete_batch no item points at a deleted feedback.
C24_ItemsReferToFeedbacks ==
    \A k \in kanban_items : \E f \in feedbacks : f.id = k.feedback_id

\* C25: rename_category(batch, old, new), the names trimmed, is refused with
\* 400 when old or new is empty, when they are equal or when a record of the
\* batch already has new, and with 404 when no record of the batch has old;
\* a refusal changes nothing. Otherwise exactly the records of the batch that
\* had old have new, nothing else changes, and no record that had another
\* category ends up under new.
C25_RenameIsPureRelabel ==
    [][\A batch_id \in BatchIdInputs, old \in OldNameInputs,
         new \in CategoryNameInputs :
           rename_category(batch_id, old, new) =>
             LET o == Strip(old)
                 n == Strip(new)
                 InBatch(f) == f.upload_batch_id = batch_id
                 had == {f \in feedbacks : InBatch(f) /\ f.category = o}
                 refused == \/ o = <<>> \/ n = <<>> \/ o = n
                            \/ \E f \in feedbacks : InBatch(f) /\ f.category = n
             IN  /\ refused => resp'.status = 400 /\ UNCHANGED tables
                 /\ (~refused /\ had = {}) => resp'.status = 404 /\ UNCHANGED tables
                 /\ (~refused /\ had # {}) =>
                       /\ resp'.status = 200
                       /\ feedbacks' =
                             (feedbacks \ had)
                             \cup {[f EXCEPT !.category = n] : f \in had}
                       /\ {g.id : g \in {e \in feedbacks' :
                                            InBatch(e) /\ e.category = n}}
                             = {f.id : f \in had}
                       /\ UNCHANGED <<upload_batches, kanban_categories,
                                      kanban_items, last_id>>]_vars

\* one record of a batch of two was renamed to "紧急"; the other record of
\* the batch keeps its own category
C25_Witness ==
    /\ resp = [status |-> 200, affected |-> 1]
    /\ \E f, g \in feedbacks :
          /\ f.upload_batch_id = g.upload_batch_id
          /\ f.category = <<"u7d27", "u6025">>
          /\ g.category # <<"u7d27", "u6025">>

\* C26: delete_kanban_category(c) removes the category c and no other, and
\* deletes no kanban item: every item that was in c has category_id NULL and
\* is otherwise as it was, no item has category_id = c, and the items of the
\* other categories are unchanged.
C26_DeleteCategoryKeepsItems ==
    [][\A c \in 1..(last_id.kanban_categories + 1) :
           delete_kanban_category(c) =>
             /\ kanban_categories' = {x \in kanban_categories : x.id # c}
             /\ {k.id : k \in kanban_items'} = {k.id : k \in kanban_items}
             /\ \A k \in kanban_items :
                   \E e \in kanban_items' :
                       /\ e.id = k.id
                       /\ k.category_id = c =>
                             /\ e.category_id = None
                             /\ e = [k EXCEPT !.category_id = None]
                       /\ k.category_id # c => e = k
             /\ \A e \in kanban_items' : e.category_id # c]_vars

\* a category was created and is gone; the board still holds an item, which
\* is in no category, and the feedback of the item is stored
C26_Witness ==
    /\ resp = [status |-> 200]
    /\ last_id.kanban_categories = 1
    /\ kanban_categories = {}
    /\ \E k \in kanban_items :
          /\ k.category_id = None
          /\ \E f \in feedbacks : f.id = k.feedback_id

\* C27: after a successful upload the total_count stored on the batch is the
\* number of feedback records stored for it, which the answer reports as
\* total_processed, also when rows of the file were skipped.
C27_TotalCountIsStoredCount ==
    UploadDone =>
        \A b \in upload_batches :
            b.id = resp.batch_id =>
                /\ b.total_count = Cardinality(BatchFeedbacks(b.id))
                /\ b.total_count = resp.total_processed

\* the last four characters of the text are ".csv"
CsvName(filename) ==
    /\ Len(filename) >= 4
    /\ SubSeq(filename, Len(filename) - 3, Len(filename)) = <<".", "c", "s", "v">>

\* nothing was written to the store and no id was drawn
Untouched ==
    /\ upload_batches = {} /\ feedbacks = {}
    /\ kanban_categories = {} /\ kanban_items = {}
    /\ \A t \in DOMAIN last_id : last_id[t] = 0

\* C28: an upload that is rejected during validation is answered with an
\* error and creates no batch and no record; a batch exists only once the
\* request has passed every check (a file named *.csv with a header row and
\* at least one data row).
C28_RejectedUploadStoresNothing ==
    /\ (req.pc = "done" /\ resp.status = 400) => Untouched
    /\ ~Untouched =>
          /\ req.pc \in {"rows", "respond", "done"}
          /\ resp.status # 400
          /\ CsvName(req.filename)
          /\ Len(req.data_rows) >= 1

\* a file named a.csv was refused, for its bytes or its rows, and the store
\* is as it was
C28_Witness ==
    /\ req.pc = "done"
    /\ resp.status = 400
    /\ req.filename = <<"a", ".", "c", "s", "v">>
    /\ Untouched

\* the text has no character that is not white space
Blank(s) == \A i \in 1..Len(s) : IsSpace(s[i])

\* C29: update_feedback_category is answered with 400 when the new category
\* is empty or white space only and with 404 when no feedback has the id,
\* and then changes nothing; otherwise the category of the record with that
\* id becomes the trimmed new value and no other record and no other field
\* changes.
C29_UpdateCategoryOfOneRecord ==
    [][\A feedback_id \in FeedbackIdInputs, category \in CategoryNameInputs :
           update_feedback_category(feedback_id, category) =>
             LET target == {f \in feedbacks : f.id = feedback_id}
             IN  /\ Blank(category) => resp'.status = 400 /\ UNCHANGED tables
                 /\ (~Blank(category) /\ target = {}) =>
                       resp'.status = 404 /\ UNCHANGED tables
                 /\ (~Blank(category) /\ target # {}) =>
                       /\ resp'.status = 200
                       /\ feedbacks' =
                             (feedbacks \ target)
                             \cup {[f EXCEPT !.category = Strip(category)] :
                                      f \in target}
                       /\ \A g \in feedbacks' :
                             g.id = feedback_id =>
                                 /\ g.category # <<>>
                                 /\ ~IsSpace(Head(g.category))
                                 /\ ~IsSpace(g.category[Len(g.category)])
                       /\ UNCHANGED <<upload_batches, kanban_categories,
                                      kanban_items, last_id>>]_vars

\* one record of a batch of two was moved to "紧急", sent as " 紧急 "; the
\* other record of the batch has its own category
C29_Witness ==
    /\ resp = [status |-> 200]
    /\ \E f, g \in feedbacks :
          /\ f.upload_batch_id = g.upload_batch_id
          /\ f.category = <<"u7d27", "u6025">>
          /\ g.category # <<"u7d27", "u6025">>

\* the trimmed line is a link
Link(line) ==
    LET t == Strip(line)
        Starts(prefix) == Len(t) >= Len(prefix) /\ SubSeq(t, 1, Len(prefix)) = prefix
    IN  Starts(<<"h", "t", "t", "p", ":", "/", "/">>) \/ Starts(<<"h", "t", "t", "p", "s", ":", "/", "/">>)

\* the attachment the rule gives for a cell: att is the links of the cell,
\* trimmed, one per line in the order of the cell
LinksOf(att, cell) ==
    LET lines == Split(Strip(cell), "LF")
        at == {i \in 1..Len(lines) : Link(lines[i])}
        out == Split(att, "LF")
    IN  /\ Len(out) = Cardinality(at)
        /\ \A i \in at :
              out[Cardinality({j \in at : j <= i})] = Strip(lines[i])

\* C30: the attachment of a stored record is empty when no attachment
\* column was detected, when the row does not reach that column, and when
\* the trimmed cell is empty or digits only; otherwise, when a line of the
\* cell starts, once trimmed, with http:// or https://, it is those trimmed
\* lines joined by newlines in their order, every other line dropped;
\* otherwise it is the trimmed cell.
C30_AttachmentRule ==
    UploadDone =>
        \A f \in BatchFeedbacks(resp.batch_id) :
            LET row == SourceRow(f)
                col == req.col_indices.attachment
            IN  IF col = None \/ Len(row) <= col THEN f.attachment = <<>>
                ELSE LET cell == row[col + 1]
                         t == Strip(cell)
                         lines == Split(t, "LF")
                     IN  IF t = <<>> \/ (\A i \in 1..Len(t) : t[i] \in
                               {"0", "1", "2", "3", "4", "5", "6", "7", "8", "9"})
                         THEN f.attachment = <<>>
                         ELSE IF \E i \in 1..Len(lines) : Link(lines[i])
                         THEN LinksOf(f.attachment, cell)
                         ELSE f.attachment = t

\* one upload stored a record whose cell of three lines gave the two links,
\* a record whose cell "123" gave nothing and a record whose cell " 图1 "
\* gave "图1"
C30_Witness ==
    /\ UploadDone
    /\ req.col_indices.attachment = 3
    /\ \E f, g, h \in BatchFeedbacks(resp.batch_id) :
          /\ Len(Split(SourceRow(f)[4], "LF")) = 3
          /\ f.attachment = <<"h", "t", "t", "p", ":", "/", "/", "a", "/", "1", ".", "p", "n", "g", "LF", "h", "t", "t", "p", "s", ":", "/", "/", "b">>
          /\ SourceRow(g)[4] = <<"1", "2", "3">>
          /\ g.attachment = <<>>
          /\ SourceRow(h)[4] = <<" ", "u56fe", "1", " ">>
          /\ h.attachment = <<"u56fe", "1">>

\* the attachment cell holds white space only: the record has no attachment
C30_WitnessEmpty ==
    /\ UploadDone
    /\ \E f \in BatchFeedbacks(resp.batch_id) :
          /\ req.col_indices.attachment = 3
          /\ SourceRow(f)[4] = <<" ", "TAB">>
          /\ f.attachment = <<>>

Next ==
    \/ Classify
    \/ Parse
    \/ Detect
    \/ GenerateCategoryName
    \/ SuggestCategoryForFeedback

Spec == Init /\ [][Next]_vars

NextUpload ==
    \/ UploadReceive
    \/ UploadDetect
    \/ UploadCreateBatch
    \/ UploadProcessRow
    \/ UploadInsert
    \/ UploadRespond

SpecUpload == InitUpload /\ [][NextUpload]_vars

NextStore ==
    \/ StoreUploadReceive
    \/ UploadDetect
    \/ UploadCreateBatch
    \/ UploadProcessRow
    \/ UploadInsert
    \/ UploadRespond
    \/ DeleteBatch
    \/ UpdateFeedbackCategory
    \/ RenameCategory
    \/ AddToKanban
    \/ RemoveFromKanban
    \/ MoveKanbanItem
    \/ AddKanbanCategory
    \/ CreateKanbanCategoryApi
    \/ UpdateKanbanCategory
    \/ DeleteKanbanCategory

SpecStore == InitStore /\ [][NextStore]_vars

\* the uploads and the requests that change the feedbacks of a batch
NextRetriage ==
    \/ StoreUploadReceive
    \/ UploadDetect
    \/ UploadCreateBatch
    \/ UploadProcessRow
    \/ UploadInsert
    \/ UploadRespond
    \/ DeleteBatch
    \/ UpdateFeedbackCategory
    \/ RenameCategory

SpecRetriage == InitStore /\ [][NextRetriage]_vars

NextThreads ==
    \/ ClassifyEnter
    \/ ClassifyLoop
    \/ ClassifyReturn
    \/ ParseCall
    \/ DetectEnter
    \/ DetectTurn
    \/ DetectReturn
    \/ GenerateEnter
    \/ GenerateLoop
    \/ GenerateReturn
    \/ GetCategories
    \/ CallerChangesList

SpecThreads == InitThreads /\ [][NextThreads]_vars

SpecRepeat == InitRepeat /\ [][NextThreads]_vars

====
